---------------------------- MODULE Spec2Model ----------------------------
(***************************************************************************)
(* gdb-memviz: the MI session (src/mi/session.rs), its line codec and      *)
(* record parser (src/mi/parser.rs) and the programs that drive it         *)
(* (src/main.rs, src/tui/mod.rs, src/interactive.rs,                       *)
(* src/interactive/commands.rs).                                           *)
(*                                                                         *)
(* The debugger is a child process behind two pipes.  Its stdout is the    *)
(* sequence inbuf of lines written and not yet read; the line EofL, always *)
(* last, stands for the closed pipe (read_line returns 0 there, and keeps  *)
(* returning 0).  A read of an empty inbuf without EofL blocks for ever.   *)
(* A line is a record of what the code looks at: its class k (blank after  *)
(* trim, the prompt, a result record starting with ^, a *stopped record,   *)
(* any other out-of-band record), the status word of a result record, the  *)
(* fields the parsers extract, and id, the serial number of the command    *)
(* the debugger was answering when it wrote the line.                      *)
(***************************************************************************)
EXTENDS Integers, Sequences, FiniteSets, TLC

VARIABLES
    inbuf,      \* debugger stdout: lines written, not yet read by the session
    stdinOpen,  \* a write to the debugger's stdin succeeds
    ncmd,       \* commands the debugger has received from exec_command
    session,    \* MiSession fields: word_size, word_known, endian, arch
    pc,         \* position inside the running session operation, or "idle"
    ctx,        \* locals of the running session operation
    xchg,       \* the last exec_command: the command's serial and its outcome
    last,       \* the last finished read loop / session operation, as returned
    proc,       \* the child process and what the program did with it
    mpc         \* position of the caller (main, run_tui, repl) of the session

vars == <<inbuf, stdinOpen, ncmd, session, pc, ctx, xchg, last, proc, mpc>>

-----------------------------------------------------------------------------
(* Bounds of the model *)

MaxCmds == 6        \* commands sent in one behaviour
MaxStream == 4      \* lines of an arbitrary stream handed to a read loop
MaxMainCmds == 12   \* commands sent in one run of the program

(* Program constants *)

MAX_DUMP_BYTES == 512
DefaultWordSize == 8
DefaultDumpLen == 32

-----------------------------------------------------------------------------
(* Option values: None is <<>>, Some(x) is <<x>> *)

None == <<>>
Some(x) == <<x>>
IsSome(o) == Len(o) > 0
Unwrap(o) == o[1]

-----------------------------------------------------------------------------
(* Lines of the debugger's output *)

NoVal == [t |-> "none", n |-> 0]
NoMem == [form |-> "none", txt |-> <<>>]

Line(k, id, st, val, mem, loc, arch) ==
    [k |-> k, id |-> id, st |-> st, val |-> val, mem |-> mem, loc |-> loc, arch |-> arch]

EofL == Line("eof", 0, "", NoVal, NoMem, 0, "")
BlankL == Line("blank", 0, "", NoVal, NoMem, 0, "")
PromptL == Line("prompt", 0, "", NoVal, NoMem, 0, "")
OobL(id) == Line("oob", id, "", NoVal, NoMem, 0, "")
StoppedL(id, loc, arch) == Line("stopped", id, "", NoVal, NoMem, loc, arch)
ResultL(id, st, val, mem, arch) == Line("result", id, st, val, mem, 0, arch)

HasEof(s) == Len(s) > 0 /\ s[Len(s)].k = "eof"

(* trimmed.starts_with('^'), trimmed == "(gdb)", trimmed.is_empty() *)
IsStopped(l) == l.k = "stopped"

-----------------------------------------------------------------------------
(* Record parser *)

parse_status(l) ==
    CASE l.st = "done" -> "Done"
      [] l.st = "running" -> "Running"
      [] l.st = "error" -> "Error"
      [] OTHER -> "Other"

parse_stopped(l) == [line |-> l.loc, arch |-> l.arch]


(* value="..." of a result record: none when the field is absent, else the
   text's kind: a decimal number, a 0x number, text naming an endianness,
   other text *)
parse_value_field(l) == IF l.val.t = "none" THEN None ELSE Some(l.val)

Ok(v) == [ok |-> TRUE, v |-> v, err |-> ""]
Err(e) == [ok |-> FALSE, v |-> 0, err |-> e]

parse_usize(val) ==
    IF val.t \in {"num", "hex"} THEN Ok(val.n) ELSE Err("parse")

parse_address_str(val) == IF val.t = "hex" THEN Some(val.n) ELSE None

parse_endian(val) ==
    IF val.t \in {"little", "mixed"} THEN "Little"
    ELSE IF val.t = "big" THEN "Big"
    ELSE "Unknown"

(* Little for the names that contain x86, amd64, i386, aarch64, arm or riscv *)
guess_endian_from_arch(arch) ==
    IF arch \in {"i386:x86-64", "aarch64", "armv7", "riscv:rv64"} THEN Some("Little")
    ELSE None

(* Memory contents.  A payload is the field's form and its text, a sequence
   of the characters "a" (a hex digit), " " and ",". *)
HexVal(c) == 10
AllHex(txt) == \A i \in DOMAIN txt : txt[i] = "a"

RECURSIVE Split(_, _, _, _)
Split(txt, sep, i, cur) ==
    IF i > Len(txt) THEN <<cur>>
    ELSE IF txt[i] = sep THEN <<cur>> \o Split(txt, sep, i + 1, <<>>)
    ELSE Split(txt, sep, i + 1, Append(cur, txt[i]))

RECURSIVE Trim(_)
Trim(txt) ==
    IF Len(txt) > 0 /\ txt[1] = " " THEN Trim(Tail(txt))
    ELSE IF Len(txt) > 0 /\ txt[Len(txt)] = " " THEN Trim(SubSeq(txt, 1, Len(txt) - 1))
    ELSE txt

RECURSIVE HexNumber(_, _)
HexNumber(txt, acc) ==
    IF Len(txt) = 0 THEN acc ELSE HexNumber(Tail(txt), acc * 16 + HexVal(txt[1]))

(* u8::from_str_radix(num, 16) of the trimmed part *)
parse_hex_byte(raw) ==
    LET trimmed == Trim(raw) IN
    IF Len(trimmed) = 0 \/ ~AllHex(trimmed) THEN None
    ELSE IF HexNumber(trimmed, 0) > 255 THEN None
    ELSE Some(HexNumber(trimmed, 0))

RECURSIVE KeepBytes(_)
KeepBytes(parts) ==
    IF Len(parts) = 0 THEN <<>>
    ELSE parse_hex_byte(parts[1]) \o KeepBytes(Tail(parts))

parse_hex_list(list) == Ok(KeepBytes(Split(list, ",", 1, <<>>)))

split_hex_bytes(txt) ==
    KeepBytes(SelectSeq(Split(txt, " ", 1, <<>>), LAMBDA part : Len(part) > 0))

RECURSIVE HexPairs(_)
HexPairs(txt) ==
    IF Len(txt) = 0 THEN <<>>
    ELSE <<HexNumber(SubSeq(txt, 1, 2), 0)>> \o HexPairs(SubSeq(txt, 3, Len(txt)))

hex_str_to_bytes(txt) ==
    IF Len(txt) % 2 # 0 THEN Err("odd-length")
    ELSE IF ~AllHex(txt) THEN Err("invalid hex")
    ELSE Ok(HexPairs(txt))

(* raw is the result record and the oob records joined: the payload fields
   in that order *)
RawFields(result, oob) ==
    LET all == <<result>> \o oob IN
    [i \in DOMAIN all |-> all[i].mem]

(* the first field of the form, as the regex of the form finds it *)
FirstField(fields, form) ==
    LET hits == SelectSeq(fields, LAMBDA m : m.form = form /\ Len(m.txt) > 0
                                              /\ (form = "bytes" => AllHex(m.txt)))
    IN  IF Len(hits) = 0 THEN None ELSE Some(hits[1])

parse_memory_contents(fields) ==
    IF IsSome(FirstField(fields, "bytes"))
    THEN hex_str_to_bytes(Unwrap(FirstField(fields, "bytes")).txt)
    ELSE IF IsSome(FirstField(fields, "contents"))
    THEN LET hex == Unwrap(FirstField(fields, "contents")).txt IN
         IF \E c \in DOMAIN hex : hex[c] = " " THEN Ok(split_hex_bytes(hex))
         ELSE hex_str_to_bytes(hex)
    ELSE IF IsSome(FirstField(fields, "contents_list"))
    THEN parse_hex_list(Unwrap(FirstField(fields, "contents_list")).txt)
    ELSE IF IsSome(FirstField(fields, "data_list"))
    THEN parse_hex_list(Unwrap(FirstField(fields, "data_list")).txt)
    ELSE Err("no memory contents found")

RECURSIVE LittleEndianValue(_)
LittleEndianValue(bs) ==
    IF Len(bs) = 0 THEN 0 ELSE bs[1] + 256 * LittleEndianValue(Tail(bs))

RECURSIVE BigEndianValue(_, _)
BigEndianValue(bs, acc) ==
    IF Len(bs) = 0 THEN acc ELSE BigEndianValue(Tail(bs), acc * 256 + bs[1])

bytes_to_u64(bytes, endian) ==
    LET len == IF Len(bytes) < 8 THEN Len(bytes) ELSE 8 IN
    IF endian = "Big"
    THEN BigEndianValue(SubSeq(bytes, 1, len), 0)
    ELSE LittleEndianValue(SubSeq(bytes, 1, len))

-----------------------------------------------------------------------------
(* The four blocking read loops of the session.  Each takes the lines s the
   pipe will deliver and returns out ("ok", an error, or "blocked" when the
   pipe runs dry with the debugger still alive) and n, the number of
   read_line calls it made; the read that returned 0 is the one at EofL. *)

MissingResultL == ResultL(0, "error", NoVal, NoMem, "")

RECURSIVE read_response_loop(_, _, _, _, _)
read_response_loop(s, i, oob, result_line, saw_prompt) ==
    IF i > Len(s)
    THEN [out |-> "blocked", n |-> Len(s), result |-> result_line, oob |-> oob]
    ELSE LET l == s[i] IN
         IF l.k = "eof"
         THEN [out |-> "eof", n |-> i, result |-> result_line, oob |-> oob]
         ELSE IF l.k = "blank"
         THEN read_response_loop(s, i + 1, oob, result_line, saw_prompt)
         ELSE IF l.k = "prompt"
         THEN IF IsSome(result_line)
              THEN [out |-> "ok", n |-> i, result |-> result_line, oob |-> oob]
              ELSE read_response_loop(s, i + 1, oob, result_line, TRUE)
         ELSE IF l.k = "result"
         THEN IF saw_prompt
              THEN [out |-> "ok", n |-> i, result |-> Some(l), oob |-> oob]
              ELSE read_response_loop(s, i + 1, oob, Some(l), saw_prompt)
         ELSE read_response_loop(s, i + 1, Append(oob, l), result_line, saw_prompt)

(* A read_response that takes the first prompt for the end of the response *)
RECURSIVE read_response_to_prompt(_, _, _, _)
read_response_to_prompt(s, i, oob, result_line) ==
    IF i > Len(s)
    THEN [out |-> "blocked", n |-> Len(s), result |-> result_line, oob |-> oob]
    ELSE LET l == s[i] IN
         IF l.k = "eof"
         THEN [out |-> "eof", n |-> i, result |-> result_line, oob |-> oob]
         ELSE IF l.k = "blank"
         THEN read_response_to_prompt(s, i + 1, oob, result_line)
         ELSE IF l.k = "prompt"
         THEN [out |-> "ok", n |-> i, result |-> result_line, oob |-> oob]
         ELSE IF l.k = "result"
         THEN read_response_to_prompt(s, i + 1, oob, Some(l))
         ELSE read_response_to_prompt(s, i + 1, Append(oob, l), result_line)

read_response_first_prompt(s) ==
    LET r == read_response_to_prompt(s, 1, <<>>, None) IN
    [out |-> r.out, n |-> r.n, oob |-> r.oob,
     result |-> IF r.out = "ok"
                THEN (IF IsSome(r.result) THEN r.result ELSE Some(MissingResultL))
                ELSE None]

read_response(s) ==
    LET r == read_response_loop(s, 1, <<>>, None, FALSE) IN
    [out |-> r.out, n |-> r.n, oob |-> r.oob,
     result |-> IF r.out = "ok"
                THEN (IF IsSome(r.result) THEN r.result ELSE Some(MissingResultL))
                ELSE None]

RECURSIVE read_until_prompt_loop(_, _, _, _, _)
read_until_prompt_loop(s, i, lines, saw_result, require_result) ==
    IF i > Len(s)
    THEN [out |-> "blocked", n |-> Len(s), lines |-> lines]
    ELSE LET l == s[i] IN
         IF l.k = "eof"
         THEN [out |-> "eof", n |-> i, lines |-> lines]
         ELSE IF l.k = "blank"
         THEN read_until_prompt_loop(s, i + 1, lines, saw_result, require_result)
         ELSE IF l.k = "prompt"
         THEN IF ~require_result \/ saw_result
              THEN [out |-> "ok", n |-> i, lines |-> lines]
              ELSE read_until_prompt_loop(s, i + 1, lines, saw_result, require_result)
         ELSE read_until_prompt_loop(s, i + 1, Append(lines, l),
                                     saw_result \/ l.k = "result", require_result)

(* A read_until_prompt that takes the closed pipe for the end of the banner *)
RECURSIVE read_until_prompt_or_eof(_, _, _, _, _)
read_until_prompt_or_eof(s, i, lines, saw_result, require_result) ==
    IF i > Len(s)
    THEN [out |-> "blocked", n |-> Len(s), lines |-> lines]
    ELSE LET l == s[i] IN
         IF l.k = "eof"
         THEN [out |-> "ok", n |-> i, lines |-> lines]
         ELSE IF l.k = "blank"
         THEN read_until_prompt_or_eof(s, i + 1, lines, saw_result, require_result)
         ELSE IF l.k = "prompt"
         THEN IF ~require_result \/ saw_result
              THEN [out |-> "ok", n |-> i, lines |-> lines]
              ELSE read_until_prompt_or_eof(s, i + 1, lines, saw_result, require_result)
         ELSE read_until_prompt_or_eof(s, i + 1, Append(lines, l),
                                       saw_result \/ l.k = "result", require_result)

read_until_prompt_eof_ok(s, require_result) ==
    read_until_prompt_or_eof(s, 1, <<>>, FALSE, require_result)

read_until_prompt(s, require_result) ==
    read_until_prompt_loop(s, 1, <<>>, FALSE, require_result)

(* arch is self.arch: a stop record fills it only while it is unset *)
RECURSIVE wait_for_stop_loop(_, _, _, _)
wait_for_stop_loop(s, i, saw_stop, arch) ==
    IF i > Len(s)
    THEN [out |-> "blocked", n |-> Len(s), arch |-> arch]
    ELSE LET l == s[i] IN
         IF l.k = "eof"
         THEN [out |-> "eof", n |-> i, arch |-> arch]
         ELSE IF l.k = "blank"
         THEN wait_for_stop_loop(s, i + 1, saw_stop, arch)
         ELSE IF l.k = "prompt"
         THEN IF saw_stop
              THEN [out |-> "ok", n |-> i, arch |-> arch]
              ELSE wait_for_stop_loop(s, i + 1, saw_stop, arch)
         ELSE IF IsStopped(l)
         THEN wait_for_stop_loop(s, i + 1, TRUE,
                                 IF arch = "" THEN parse_stopped(l).arch ELSE arch)
         ELSE IF l.k = "result" /\ l.st = "error"
         THEN [out |-> "gdberr", n |-> i, arch |-> arch]
         ELSE wait_for_stop_loop(s, i + 1, saw_stop, arch)

wait_for_stop(s, arch) == wait_for_stop_loop(s, 1, FALSE, arch)

RECURSIVE wait_for_stop_capture_loop(_, _, _, _)
wait_for_stop_capture_loop(s, i, stop, arch) ==
    IF i > Len(s)
    THEN [out |-> "blocked", n |-> Len(s), loc |-> stop, arch |-> arch]
    ELSE LET l == s[i] IN
         IF l.k = "eof"
         THEN [out |-> "eof", n |-> i, loc |-> stop, arch |-> arch]
         ELSE IF l.k = "blank"
         THEN wait_for_stop_capture_loop(s, i + 1, stop, arch)
         ELSE IF l.k = "prompt"
         THEN IF IsSome(stop)
              THEN [out |-> "ok", n |-> i, loc |-> stop, arch |-> arch]
              ELSE wait_for_stop_capture_loop(s, i + 1, stop, arch)
         ELSE IF IsStopped(l)
         THEN wait_for_stop_capture_loop(s, i + 1, Some(parse_stopped(l)),
                                         IF arch = "" THEN parse_stopped(l).arch ELSE arch)
         ELSE IF l.k = "result" /\ l.st = "error"
         THEN [out |-> "gdberr", n |-> i, loc |-> stop, arch |-> arch]
         ELSE wait_for_stop_capture_loop(s, i + 1, stop, arch)

(* A stop wait that returns at the stop record, the prompt after it unread *)
RECURSIVE wait_for_stop_record_loop(_, _, _)
wait_for_stop_record_loop(s, i, arch) ==
    IF i > Len(s)
    THEN [out |-> "blocked", n |-> Len(s), loc |-> None, arch |-> arch]
    ELSE LET l == s[i] IN
         IF l.k = "eof"
         THEN [out |-> "eof", n |-> i, loc |-> None, arch |-> arch]
         ELSE IF IsStopped(l)
         THEN [out |-> "ok", n |-> i, loc |-> Some(parse_stopped(l)),
               arch |-> IF arch = "" THEN parse_stopped(l).arch ELSE arch]
         ELSE IF l.k = "result" /\ l.st = "error"
         THEN [out |-> "gdberr", n |-> i, loc |-> None, arch |-> arch]
         ELSE wait_for_stop_record_loop(s, i + 1, arch)

wait_for_stop_record(s, arch) == wait_for_stop_record_loop(s, 1, arch)

wait_for_stop_capture(s, arch) == wait_for_stop_capture_loop(s, 1, None, arch)

(* What a read loop that made n read_line calls leaves in the pipe: the read
   that returned 0 consumed nothing. *)
Consumed(r) == IF r.out = "eof" THEN r.n - 1 ELSE r.n
Rest(s, r) == SubSeq(s, Consumed(r) + 1, Len(s))
ReadLines(s, r) == SubSeq(s, 1, r.n)


-----------------------------------------------------------------------------
(* State after MiSession::start *)

NewSession ==
    [word_size |-> DefaultWordSize, word_known |-> FALSE, endian |-> "Unknown", arch |-> ""]

(* What an operation handed back: out is "ok" or the error; rd the lines its
   last read loop read; result/oob an MiResponse; loc a StoppedLocation;
   dump a MemoryDump *)
Returned(op, out, rd, result, oob, loc, dump) ==
    [op |-> op, out |-> out, rd |-> rd, result |-> result, oob |-> oob,
     loc |-> loc, dump |-> dump]

NoLast == Returned("none", "none", <<>>, None, <<>>, None, None)
NoXchg == [id |-> 0, cmd |-> "", out |-> "none", result |-> None, oob |-> <<>>]
NoCtx == [op |-> "none", len |-> None, sizeof |-> None, requested |-> 0,
          truncated_from |-> None, addr |-> 0, bytes |-> <<>>, ty |-> None,
          var |-> "", locals |-> <<>>]

-----------------------------------------------------------------------------
(* The debugger.  It answers a command with out-of-band records, one result
   record and a prompt; after ^running it reports the stop of the inferior
   with a *stopped record and a further prompt; it may exit at any point,
   closing its stdout (die = "out") or both pipes (die = "both"). *)

MaxPayload == 3     \* characters of a memory-contents text

RECURSIVE SeqsUpTo(_, _)
SeqsUpTo(S, n) ==
    IF n = 0 THEN {<<>>}
    ELSE LET shorter == SeqsUpTo(S, n - 1) IN
         shorter \cup {Append(q, x) : q \in shorter, x \in S}

(* value="..." of a result record: t is what the text is (a decimal number,
   a 0x number, the name of an endianness, a variable object, other text),
   n the number *)
PlainResults(id) ==
    {ResultL(id, st, NoVal, NoMem, "") : st \in {"done", "error"}}

EndianResults(id) ==
    {ResultL(id, "done", [t |-> t, n |-> 0], NoMem, "") : t \in {"little", "big", "mixed", "txt"}}

ArchResults(id) ==
    {ResultL(id, "done", [t |-> "txt", n |-> 0], NoMem, a) : a \in {"aarch64", "mips", "auto", ""}}

SizeofResults(id) ==
    {ResultL(id, "done", [t |-> "num", n |-> n], NoMem, "") : n \in {0, 4, 513}}
        \cup {ResultL(id, "done", [t |-> "txt", n |-> 0], NoMem, "")}

WordSizeResults(id) ==
    {ResultL(id, "done", [t |-> "num", n |-> n], NoMem, "") : n \in {0, 4}}
        \cup {ResultL(id, "error", NoVal, NoMem, "")}

AddrResults(id) ==
    {ResultL(id, "done", [t |-> t, n |-> 16], NoMem, "") : t \in {"hex", "num", "txt"}}

MemResults(id) ==
    {ResultL(id, "done", NoVal, [form |-> f, txt |-> txt], "") :
        f \in {"bytes", "contents"}, txt \in SeqsUpTo({"a", " "}, MaxPayload)}
        \cup {ResultL(id, "done", NoVal, [form |-> f, txt |-> txt], "") :
                 f \in {"contents_list", "data_list"},
                 txt \in SeqsUpTo({"a", ","}, MaxPayload)}

(* -var-create: name and type present, name only, neither *)
VarResults(id) ==
    {ResultL(id, "done", v, NoMem, "") : v \in {[t |-> "var", n |-> 1], [t |-> "var", n |-> 0], NoVal}}

parse_var_name(l) == IF l.val.t = "var" THEN Some("var1") ELSE None
parse_type_field(l) == IF l.val.t = "var" /\ l.val.n = 1 THEN Some("T") ELSE None

StopRecords(id) == {StoppedL(id, loc, a) : loc \in {1, 2}, a \in {"", "aarch64"}}

Oobs(id) == {<<>>, <<OobL(id)>>}

Reply(lines, die) == [lines |-> lines, die |-> die]

(* core: the results answered with out-of-band records before or after
   them; plain: the results answered with none; a debugger that exits does
   so before the result, after it, or after the prompt *)
Done(id) == ResultL(id, "done", NoVal, NoMem, "")
Failed(id) == ResultL(id, "error", NoVal, NoMem, "")
Running(id) == ResultL(id, "running", NoVal, NoMem, "")

Replies(core, plain, id) ==
    {Reply(pre \o <<r, PromptL>>, "no") : pre \in Oobs(id), r \in core}
        \cup {Reply(<<r>> \o post \o <<PromptL>>, "no") : post \in Oobs(id), r \in core}
        \cup {Reply(<<r, PromptL>>, "no") : r \in plain}
        \cup {Reply(<<Done(id), PromptL>>, d) : d \in {"out", "both"}}
        \cup {Reply(<<>>, d) : d \in {"out", "both"}}
        \cup {Reply(<<OobL(id), Done(id)>>, "both")}

ExecReplies(id) ==
    Replies({Failed(id)}, {}, id)
        \* the stop is reported after the prompt that closes the response
        \cup {Reply(pre \o <<Running(id)>> \o post \o <<PromptL, s, PromptL>>, "no") :
                 pre \in Oobs(id), post \in Oobs(id), s \in StopRecords(id)}
        \* the stop is reported before that prompt
        \cup {Reply(<<Running(id), s, PromptL>> \o more, "no") :
                 s \in StopRecords(id), more \in {<<>>, <<PromptL>>}}
        \* the inferior does not stop
        \cup {Reply(<<Running(id), PromptL>>, d) : d \in {"no", "out", "both"}}
        \* the debugger exits between the stop record and its prompt
        \cup {Reply(<<Running(id), PromptL, s>>, "both") : s \in StopRecords(id)}

(* The debugger's banner *)
Banners ==
    {Reply(pre \o <<PromptL>>, "no") : pre \in Oobs(0)}
        \cup {Reply(pre, d) : pre \in Oobs(0), d \in {"out", "both"}}

Emitted(reply) ==
    reply.lines \o (IF reply.die = "no" THEN <<>> ELSE <<EofL>>)

(* exec_command: send_line, then read_response.  The debugger answers only
   while its stdout is open. *)
Answers(replies) == IF ~stdinOpen \/ HasEof(inbuf) THEN {Reply(<<>>, "no")} ELSE replies

exec_command(cmd, reply) ==
    IF ~stdinOpen
    THEN [out |-> "write", cmd |-> cmd, id |-> ncmd, buf |-> inbuf, open |-> FALSE,
          rd |-> <<>>, result |-> None, oob |-> <<>>]
    ELSE LET avail == IF HasEof(inbuf) THEN inbuf ELSE inbuf \o Emitted(reply)
             r == read_response(avail)
         IN  [out |-> r.out, cmd |-> cmd, id |-> ncmd + 1, buf |-> Rest(avail, r),
              open |-> (reply.die # "both"),
              rd |-> ReadLines(avail, r), result |-> r.result, oob |-> r.oob]

Status(x) == parse_status(Unwrap(x.result))

CanSend == ncmd < (IF mpc = "api" THEN MaxCmds ELSE MaxMainCmds)

Sent(x) ==
    /\ inbuf' = x.buf
    /\ ncmd' = x.id
    /\ stdinOpen' = x.open
    \* xchg keeps of the result record its status and value, not its memory
    \* payload
    /\ xchg' = [id |-> x.id, cmd |-> x.cmd, out |-> x.out, oob |-> x.oob,
                result |-> IF IsSome(x.result)
                           THEN Some([Unwrap(x.result) EXCEPT !.mem = NoMem, !.arch = ""])
                           ELSE None]

(* How a step of an operation ends: the read blocks for ever, the operation
   returns to its caller, or it goes on to its next call. *)
Hang == pc' = "hung" /\ UNCHANGED <<ctx, last, proc>>

Return(rec) ==
    /\ pc' = "idle"
    /\ last' = rec
    \* tfail: an operation has failed with EOF or a failed write
    /\ proc' = [proc EXCEPT !.tfail = @ \/ rec.out \in {"eof", "write"}]
    /\ UNCHANGED ctx

Finish(out) == Return(Returned(ctx.op, out, <<>>, None, <<>>, None, None))

Goto(p, c) == pc' = p /\ ctx' = c /\ UNCHANGED <<last, proc>>

Then(next, c) ==
    IF next = "idle" THEN Finish("ok") ELSE Goto(next, c)

(* A call of a session operation: the caller's record of the previous
   operation is dropped *)
Begin(op, first, c) ==
    /\ pc = "idle"
    /\ proc.child = "running"
    /\ pc' = first
    /\ ctx' = [c EXCEPT !.op = op]
    /\ last' = NoLast
    /\ xchg' = NoXchg
    /\ UNCHANGED <<inbuf, stdinOpen, ncmd, session, proc>>

-----------------------------------------------------------------------------
(* The session operations, one action per call the operation makes *)

evaluate_sizeof(x) ==
    IF x.out # "ok" THEN Err(x.out)
    ELSE IF Status(x) = "Error" THEN Err("gdberr")
    ELSE LET raw == parse_value_field(Unwrap(x.result)) IN
         IF ~IsSome(raw) THEN Err("sizeof returned no value")
         ELSE parse_usize(Unwrap(raw))

eval_expr_u64(x) ==
    IF x.out # "ok" THEN Err(x.out)
    ELSE IF Status(x) = "Error" THEN Err("gdberr")
    ELSE LET raw == parse_value_field(Unwrap(x.result)) IN
         IF ~IsSome(raw) THEN Err("value field not found in MI response")
         ELSE IF IsSome(parse_address_str(Unwrap(raw)))
         THEN Ok(Unwrap(parse_address_str(Unwrap(raw))))
         ELSE parse_usize(Unwrap(raw))

read_memory_bytes(x) ==
    IF x.out # "ok" THEN Err(x.out)
    ELSE IF Status(x) = "Error" THEN Err("gdberr")
    ELSE parse_memory_contents(RawFields(Unwrap(x.result), x.oob))

(* an ensure_word_size that counts the word size as known only when the
   debugger has reported one *)
ensure_word_size_until_answered(at, next) ==
    /\ pc = at
    /\ IF session.word_known
       THEN UNCHANGED <<inbuf, ncmd, stdinOpen, xchg, session>> /\ Then(next, ctx)
       ELSE /\ CanSend
            /\ \E reply \in Answers(Replies(WordSizeResults(ncmd + 1), {}, ncmd + 1)) :
                  LET x == exec_command("-data-evaluate-expression sizeof(void*)", reply)
                      sz == evaluate_sizeof(x)
                  IN  /\ Sent(x)
                      /\ IF x.out = "blocked" THEN Hang /\ UNCHANGED session
                         ELSE /\ session' = IF sz.ok /\ sz.v > 0
                                            THEN [session EXCEPT !.word_size = sz.v,
                                                                 !.word_known = TRUE]
                                            ELSE [session EXCEPT
                                                    !.word_size = DefaultWordSize]
                              /\ Then(next, ctx)
    /\ UNCHANGED mpc

(* ensure_word_size at the call site at, which goes on to next *)
ensure_word_size(at, next) ==
    /\ pc = at
    /\ IF session.word_known
       THEN UNCHANGED <<inbuf, ncmd, stdinOpen, xchg, session>> /\ Then(next, ctx)
       ELSE /\ CanSend
            /\ \E reply \in Answers(Replies(WordSizeResults(ncmd + 1), {}, ncmd + 1)) :
                  LET x == exec_command("-data-evaluate-expression sizeof(void*)", reply)
                      sz == evaluate_sizeof(x)
                  IN  /\ Sent(x)
                      /\ IF x.out = "blocked" THEN Hang /\ UNCHANGED session
                         ELSE /\ session' = [session EXCEPT
                                     !.word_size = IF sz.ok /\ sz.v > 0 THEN sz.v
                                                   ELSE DefaultWordSize,
                                     !.word_known = TRUE]
                              /\ Then(next, ctx)
    /\ UNCHANGED mpc

(* an ensure_endian that gives up when the debugger does not name the endian *)
EndianIfAnswered(x, arch) ==
    LET val == IF x.out = "ok" THEN parse_value_field(Unwrap(x.result)) ELSE None
    IN  IF IsSome(val) THEN parse_endian(Unwrap(val)) ELSE "Unknown"

EndianOf(x, arch) ==
    LET val == IF x.out = "ok" THEN parse_value_field(Unwrap(x.result)) ELSE None
        parsed == IF IsSome(val) THEN parse_endian(Unwrap(val)) ELSE "Unknown"
    IN  IF parsed # "Unknown" THEN parsed
        ELSE IF arch # "" /\ IsSome(guess_endian_from_arch(arch))
        THEN Unwrap(guess_endian_from_arch(arch))
        ELSE "Little"

ensure_endian(at, next) ==
    /\ pc = at
    /\ IF session.endian # "Unknown"
       THEN UNCHANGED <<inbuf, ncmd, stdinOpen, xchg, session>> /\ Then(next, ctx)
       ELSE /\ CanSend
            /\ \E reply \in Answers(Replies(EndianResults(ncmd + 1) \cup PlainResults(ncmd + 1),
                                            {}, ncmd + 1)) :
                  LET x == exec_command("-gdb-show endian", reply) IN
                  /\ Sent(x)
                  /\ IF x.out = "blocked" THEN Hang /\ UNCHANGED session
                     ELSE /\ session' = [session EXCEPT !.endian = EndianOf(x, session.arch)]
                          /\ Then(next, ctx)
    /\ UNCHANGED mpc

ensure_arch(at, next) ==
    /\ pc = at
    /\ IF session.arch # ""
       THEN UNCHANGED <<inbuf, ncmd, stdinOpen, xchg, session>> /\ Then(next, ctx)
       ELSE /\ CanSend
            /\ \E reply \in Answers(Replies(ArchResults(ncmd + 1) \cup PlainResults(ncmd + 1),
                                            {}, ncmd + 1)) :
                  LET x == exec_command("-gdb-show architecture", reply)
                      val == IF x.out = "ok" THEN parse_value_field(Unwrap(x.result))
                             ELSE None
                      trimmed == IF IsSome(val) THEN Unwrap(x.result).arch ELSE ""
                  IN  /\ Sent(x)
                      /\ IF x.out = "blocked" THEN Hang /\ UNCHANGED session
                         ELSE /\ session' = [session EXCEPT
                                     !.arch = IF trimmed # "" /\ trimmed # "auto"
                                              THEN trimmed ELSE ""]
                              /\ Then(next, ctx)
    /\ UNCHANGED mpc

(* drain_initial_output *)
DrainRead ==
    /\ pc = "drain_read"
    /\ LET r == read_until_prompt(inbuf, FALSE) IN
       /\ inbuf' = Rest(inbuf, r)
       /\ IF r.out = "blocked" THEN Hang
          ELSE IF r.out # "ok" THEN Finish(r.out)
          ELSE Goto("drain_endian", ctx)
    /\ UNCHANGED <<ncmd, stdinOpen, xchg, session, mpc>>

(* exec_command with a command that runs nothing *)
ExecCommand ==
    /\ pc = "exec_command"
    /\ CanSend
    /\ \E reply \in Answers(Replies(PlainResults(ncmd + 1), {}, ncmd + 1)) :
          LET x == exec_command("cmd", reply) IN
          /\ Sent(x)
          /\ IF x.out = "blocked" THEN Hang
             ELSE Return(Returned(ctx.op, x.out, <<>>, x.result, x.oob, None, None))
    /\ UNCHANGED <<session, mpc>>

(* break_insert, list_locals (of a frame whose locals come with their values
   and types) and the breakpoint of run_to_main: the command at the call
   site at, whose error is the operation's *)
Command(at, cmd, next) ==
    /\ pc = at
    /\ CanSend
    /\ \E reply \in Answers(Replies(PlainResults(ncmd + 1), {}, ncmd + 1)) :
          LET x == exec_command(cmd, reply) IN
          /\ Sent(x)
          /\ IF x.out = "blocked" THEN Hang
             ELSE IF x.out # "ok" THEN Finish(x.out)
             ELSE IF Status(x) = "Error" THEN Finish("gdberr")
             ELSE Then(next, ctx)
    /\ UNCHANGED <<session, mpc>>

(* The stop wait of an operation: wait_for_stop_capture on what the pipe
   delivers *)
StopWait(at) ==
    /\ pc = at
    /\ LET r == wait_for_stop_capture(inbuf, session.arch) IN
       /\ inbuf' = Rest(inbuf, r)
       /\ session' = [session EXCEPT !.arch = r.arch]
       /\ IF r.out = "blocked" THEN Hang
          ELSE Return(Returned(ctx.op, r.out, ReadLines(inbuf, r), xchg.result, xchg.oob,
                               IF r.out = "ok" THEN r.loc ELSE None, None))
    /\ UNCHANGED <<ncmd, stdinOpen, xchg, mpc>>

(* a run_to_main that takes every answer to -exec-run for a start *)
RunToMainRunUnchecked ==
    /\ pc = "rtm_run"
    /\ CanSend
    /\ \E reply \in Answers(ExecReplies(ncmd + 1)) :
          LET x == exec_command("-exec-run", reply) IN
          /\ Sent(x)
          /\ IF x.out = "blocked" THEN Hang
             ELSE IF x.out # "ok" THEN Finish(x.out)
             ELSE IF Len(SelectSeq(x.oob, IsStopped)) > 0
             THEN Return(Returned(ctx.op, "ok", <<>>, x.result, x.oob,
                                  Some(parse_stopped(SelectSeq(x.oob, IsStopped)[1])),
                                  None))
             ELSE Goto("rtm_wait", ctx)
    /\ UNCHANGED <<session, mpc>>

(* run_to_main, after its breakpoint *)
RunToMainRun ==
    /\ pc = "rtm_run"
    /\ CanSend
    /\ \E reply \in Answers(ExecReplies(ncmd + 1)) :
          LET x == exec_command("-exec-run", reply) IN
          /\ Sent(x)
          /\ IF x.out = "blocked" THEN Hang
             ELSE IF x.out # "ok" THEN Finish(x.out)
             ELSE IF Status(x) = "Error" THEN Finish("gdberr")
             ELSE IF Len(SelectSeq(x.oob, IsStopped)) > 0
             THEN Return(Returned(ctx.op, "ok", <<>>, x.result, x.oob,
                                  Some(parse_stopped(SelectSeq(x.oob, IsStopped)[1])),
                                  None))
             ELSE Goto("rtm_wait", ctx)
    /\ UNCHANGED <<session, mpc>>

(* exec_continue, exec_next, exec_step: the command, then the stop wait *)
ControlOps == {"exec_continue", "exec_next", "exec_step"}

ControlExec(op) ==
    /\ pc = op
    /\ CanSend
    /\ \E reply \in Answers(ExecReplies(ncmd + 1)) :
          LET cmd == CASE op = "exec_continue" -> "-exec-continue"
                       [] op = "exec_next" -> "-exec-next"
                       [] op = "exec_step" -> "-exec-step"
              x == exec_command(cmd, reply)
          IN  /\ Sent(x)
              /\ IF x.out = "blocked" THEN Hang
                 ELSE IF x.out # "ok" THEN Finish(x.out)
                 ELSE IF Status(x) = "Error" THEN Finish("gdberr")
                 ELSE Goto("stop_wait", ctx)
    /\ UNCHANGED <<session, mpc>>

(* wait_for_stop, called on its own *)
WaitForStop ==
    /\ pc = "wait_for_stop"
    /\ LET r == wait_for_stop(inbuf, session.arch) IN
       /\ inbuf' = Rest(inbuf, r)
       /\ session' = [session EXCEPT !.arch = r.arch]
       /\ IF r.out = "blocked" THEN Hang
          ELSE Return(Returned(ctx.op, r.out, ReadLines(inbuf, r), None, <<>>, None, None))
    /\ UNCHANGED <<ncmd, stdinOpen, xchg, mpc>>

(* memory_dump *)
(* a length rule that also reports a dump of exactly the cap as truncated *)
RequestedLenCapInclusive(override_len, sizeof) ==
    LET len == IF IsSome(override_len) THEN Unwrap(override_len)
               ELSE IF sizeof.ok THEN sizeof.v ELSE DefaultDumpLen
        requested == IF len = 0 THEN DefaultDumpLen ELSE len
    IN  IF requested >= MAX_DUMP_BYTES
        THEN [requested |-> MAX_DUMP_BYTES, truncated_from |-> Some(requested)]
        ELSE [requested |-> requested, truncated_from |-> None]

RequestedLen(override_len, sizeof) ==
    LET len == IF IsSome(override_len) THEN Unwrap(override_len)
               ELSE IF sizeof.ok THEN sizeof.v ELSE DefaultDumpLen
        requested == IF len = 0 THEN DefaultDumpLen ELSE len
    IN  IF requested > MAX_DUMP_BYTES
        THEN [requested |-> MAX_DUMP_BYTES, truncated_from |-> Some(requested)]
        ELSE [requested |-> requested, truncated_from |-> None]

DumpAddress ==
    /\ pc = "md_addr"
    /\ CanSend
    /\ \E reply \in Answers(Replies(PlainResults(ncmd + 1), AddrResults(ncmd + 1), ncmd + 1)) :
          LET x == exec_command("-data-evaluate-expression &", reply)
              a == eval_expr_u64(x)
              rl == RequestedLen(ctx.len, Err("unused"))
          IN  /\ Sent(x)
              /\ IF x.out = "blocked" THEN Hang
                 ELSE IF ~a.ok THEN Finish(a.err)
                 ELSE IF IsSome(ctx.len)
                 THEN Goto("md_read", [ctx EXCEPT !.addr = a.v,
                                                  !.requested = rl.requested,
                                                  !.truncated_from = rl.truncated_from])
                 ELSE Goto("md_sizeof", [ctx EXCEPT !.addr = a.v])
    /\ UNCHANGED <<session, mpc>>

DumpSizeof ==
    /\ pc = "md_sizeof"
    /\ CanSend
    /\ \E reply \in Answers(Replies(PlainResults(ncmd + 1), SizeofResults(ncmd + 1), ncmd + 1)) :
          LET x == exec_command("-data-evaluate-expression sizeof", reply)
              sz == evaluate_sizeof(x)
              rl == RequestedLen(ctx.len, sz)
          IN  /\ Sent(x)
              /\ IF x.out = "blocked" THEN Hang
                 ELSE Goto("md_read", [ctx EXCEPT !.sizeof = Some(sz),
                                                  !.requested = rl.requested,
                                                  !.truncated_from = rl.truncated_from])
    /\ UNCHANGED <<session, mpc>>

(* memory_dump returns its MemoryDump; len and sizeof are the override and
   the sizeof it was computed from *)
ReturnDump(ty) ==
    Return(Returned(ctx.op, "ok", <<>>, None, <<>>, None,
                    Some([bytes |-> ctx.bytes, requested |-> ctx.requested,
                          truncated_from |-> ctx.truncated_from,
                          endian |-> session.endian, word_size |-> session.word_size,
                          ty |-> ty, len |-> ctx.len, sizeof |-> ctx.sizeof])))

DumpRead ==
    /\ pc = "md_read"
    /\ CanSend
    /\ \E reply \in Answers(Replies(PlainResults(ncmd + 1), MemResults(ncmd + 1), ncmd + 1)) :
          LET x == exec_command("-data-read-memory-bytes", reply)
              m == read_memory_bytes(x)
          IN  /\ Sent(x)
              /\ IF x.out = "blocked" THEN Hang /\ UNCHANGED session
                 ELSE IF ~m.ok THEN Finish(m.err) /\ UNCHANGED session
                 ELSE /\ Goto("md_type", [ctx EXCEPT !.bytes = m.v])
                      /\ session' =
                            IF session.endian # "Unknown" THEN session
                            ELSE IF session.arch # "" /\ IsSome(guess_endian_from_arch(session.arch))
                            THEN [session EXCEPT
                                    !.endian = Unwrap(guess_endian_from_arch(session.arch))]
                            ELSE [session EXCEPT !.endian = "Little"]
    /\ UNCHANGED mpc

(* fetch_type: -var-create, then -var-delete when the variable got a name *)
DumpFetchType ==
    /\ pc = "md_type"
    /\ CanSend
    /\ \E reply \in Answers(Replies(PlainResults(ncmd + 1), VarResults(ncmd + 1), ncmd + 1)) :
          LET x == exec_command("-var-create", reply) IN
          /\ Sent(x)
          /\ IF x.out = "blocked" THEN Hang
             ELSE IF x.out # "ok" THEN ReturnDump(None)
             ELSE IF Status(x) = "Error" THEN ReturnDump(None)
             ELSE IF ~IsSome(parse_var_name(Unwrap(x.result))) THEN ReturnDump(None)
             ELSE Goto("md_vdel", [ctx EXCEPT !.ty = parse_type_field(Unwrap(x.result)),
                                              !.var = Unwrap(parse_var_name(Unwrap(x.result)))])
    /\ UNCHANGED <<session, mpc>>

DumpVarDelete ==
    /\ pc = "md_vdel"
    /\ CanSend
    /\ \E reply \in Answers(Replies(PlainResults(ncmd + 1), {}, ncmd + 1)) :
          LET x == exec_command("-var-delete " \o ctx.var, reply) IN
          /\ Sent(x)
          /\ IF x.out = "blocked" THEN Hang ELSE ReturnDump(ctx.ty)
    /\ UNCHANGED <<session, mpc>>

(* fetch_type as list_locals and eval_expr_type_and_value call it: the
   -var-create at the call site at, then the -var-delete of the name parsed
   at the call site del; the caller goes on at next with the local done *)
MaxLocals == 2      \* locals of the frame

(* a fetch_type that leaves the object it created *)
VarCreateOnly(at, del, next) ==
    /\ pc = at
    /\ CanSend
    /\ \E reply \in Answers(Replies(PlainResults(ncmd + 1), VarResults(ncmd + 1), ncmd + 1)) :
          LET x == exec_command("-var-create", reply) IN
          /\ Sent(x)
          /\ IF x.out = "blocked" THEN Hang
             ELSE Then(next, [ctx EXCEPT !.locals = IF @ = <<>> THEN @ ELSE Tail(@)])
    /\ UNCHANGED <<session, mpc>>

VarCreate(at, del, next) ==
    /\ pc = at
    /\ CanSend
    /\ \E reply \in Answers(Replies(PlainResults(ncmd + 1), VarResults(ncmd + 1), ncmd + 1)) :
          LET x == exec_command("-var-create", reply) IN
          /\ Sent(x)
          /\ IF x.out = "blocked" THEN Hang
             ELSE IF \/ x.out # "ok"
                     \/ Status(x) = "Error"
                     \/ ~IsSome(parse_var_name(Unwrap(x.result)))
             THEN Then(next, [ctx EXCEPT !.locals = IF @ = <<>> THEN @ ELSE Tail(@)])
             ELSE Goto(del, [ctx EXCEPT !.ty = parse_type_field(Unwrap(x.result)),
                                        !.var = Unwrap(parse_var_name(Unwrap(x.result)))])
    /\ UNCHANGED <<session, mpc>>

VarDelete(at, next) ==
    /\ pc = at
    /\ CanSend
    /\ \E reply \in Answers(Replies(PlainResults(ncmd + 1), {}, ncmd + 1)) :
          LET x == exec_command("-var-delete " \o ctx.var, reply) IN
          /\ Sent(x)
          /\ IF x.out = "blocked" THEN Hang
             ELSE Then(next, [ctx EXCEPT !.locals = IF @ = <<>> THEN @ ELSE Tail(@)])
    /\ UNCHANGED <<session, mpc>>

(* list_locals of a frame whose locals may come without value or type: the
   command, whose error is the operation's, then for each local the
   evaluation of its name when it has no value and the type probe when it
   has no type, whatever they answer *)
ListLocals ==
    /\ pc = "ll_cmd"
    /\ CanSend
    /\ \E reply \in Answers(Replies(PlainResults(ncmd + 1), {}, ncmd + 1)) :
       \E locals \in SeqsUpTo([value : BOOLEAN, ty : BOOLEAN], MaxLocals) :
          LET x == exec_command("-stack-list-locals 2", reply) IN
          /\ Sent(x)
          /\ IF x.out = "blocked" THEN Hang
             ELSE IF x.out # "ok" THEN Finish(x.out)
             ELSE IF Status(x) = "Error" THEN Finish("gdberr")
             ELSE Goto("ll_var", [ctx EXCEPT !.locals = locals])
    /\ UNCHANGED <<session, mpc>>

LocalsLoop ==
    /\ pc = "ll_var"
    /\ IF ctx.locals = <<>> THEN Finish("ok")
       ELSE IF ~Head(ctx.locals).value THEN Goto("ll_eval", ctx)
       ELSE IF ~Head(ctx.locals).ty THEN Goto("ll_create", ctx)
       ELSE Goto("ll_var", [ctx EXCEPT !.locals = Tail(@)])
    /\ UNCHANGED <<inbuf, stdinOpen, ncmd, xchg, session, mpc>>

LocalsEvaluate ==
    /\ pc = "ll_eval"
    /\ CanSend
    /\ \E reply \in Answers(Replies(PlainResults(ncmd + 1), AddrResults(ncmd + 1), ncmd + 1)) :
          LET x == exec_command("-data-evaluate-expression", reply) IN
          /\ Sent(x)
          /\ IF x.out = "blocked" THEN Hang
             ELSE Goto("ll_var", [ctx EXCEPT !.locals[1].value = TRUE])
    /\ UNCHANGED <<session, mpc>>

(* eval_expr_type_and_value: the type comes from the result record or, when
   it has none, from the type probe *)
EvalTypeAndValue ==
    /\ pc = "ev_cmd"
    /\ CanSend
    /\ \E reply \in Answers(Replies(PlainResults(ncmd + 1),
                                    AddrResults(ncmd + 1) \cup VarResults(ncmd + 1),
                                    ncmd + 1)) :
          LET x == exec_command("-data-evaluate-expression", reply) IN
          /\ Sent(x)
          /\ IF x.out = "blocked" THEN Hang
             ELSE IF x.out # "ok" THEN Finish(x.out)
             ELSE IF Status(x) = "Error" THEN Finish("gdberr")
             ELSE IF ~IsSome(parse_value_field(Unwrap(x.result)))
             THEN Finish("value not found in MI response")
             ELSE IF IsSome(parse_type_field(Unwrap(x.result))) THEN Finish("ok")
             ELSE Goto("ev_create", ctx)
    /\ UNCHANGED <<session, mpc>>

(* read_pointer_at *)
PointerRead ==
    /\ pc = "rp_read"
    /\ CanSend
    /\ \E reply \in Answers(Replies(PlainResults(ncmd + 1), MemResults(ncmd + 1), ncmd + 1)) :
          LET x == exec_command("-data-read-memory-bytes", reply)
              m == read_memory_bytes(x)
              given == IF IsSome(ctx.len) THEN Unwrap(ctx.len) ELSE session.word_size
              size == IF given > 1 THEN given ELSE 1
          IN  /\ Sent(x)
              /\ IF x.out = "blocked" THEN Hang
                 ELSE IF ~m.ok THEN Finish(m.err)
                 ELSE Return(Returned(ctx.op, "ok", <<>>, None, <<>>, None,
                                      Some([value |-> bytes_to_u64(m.v, session.endian),
                                            endian |-> session.endian, size |-> size])))
    /\ UNCHANGED <<session, mpc>>

(* handle_view of the REPL (src/interactive.rs): sizeof and address of the
   symbol, whose errors are printed and end the command with Ok; the layout,
   got if it can be; then memory_dump(symbol, Some(size))?, whose error is
   the error of handle_view *)
handle_view ==
    /\ CanSend
    /\ \/ /\ pc = "view_sizeof"
          /\ \E reply \in Answers(Replies(PlainResults(ncmd + 1), SizeofResults(ncmd + 1),
                                          ncmd + 1)) :
                LET x == exec_command("-data-evaluate-expression sizeof", reply)
                    sz == evaluate_sizeof(x)
                IN  /\ Sent(x)
                    /\ IF x.out = "blocked" THEN Hang
                       ELSE IF ~sz.ok THEN Finish("ok")
                       ELSE Goto("view_addr", [ctx EXCEPT !.len = Some(sz.v)])
       \/ /\ pc = "view_addr"
          /\ \E reply \in Answers(Replies(PlainResults(ncmd + 1), AddrResults(ncmd + 1),
                                          ncmd + 1)) :
                LET x == exec_command("-data-evaluate-expression &", reply) IN
                /\ Sent(x)
                /\ IF x.out = "blocked" THEN Hang
                   ELSE IF x.out # "ok" \/ Status(x) = "Error"
                           \/ ~IsSome(parse_value_field(Unwrap(x.result)))
                   THEN Finish("ok")
                   ELSE Goto("view_layout", ctx)
       \/ /\ pc = "view_layout"
          /\ \E reply \in Answers(Replies(PlainResults(ncmd + 1), {}, ncmd + 1)) :
                LET x == exec_command("-interpreter-exec console ptype", reply) IN
                /\ Sent(x)
                /\ IF x.out = "blocked" THEN Hang ELSE Goto("md_ws", ctx)
    /\ UNCHANGED <<session, mpc>>

(* shutdown: -gdb-exit is sent if the pipe takes it, the child is waited for *)
Shutdown ==
    /\ pc = "shutdown"
    /\ proc' = [proc EXCEPT !.child = "reaped", !.quit = stdinOpen]
    /\ stdinOpen' = FALSE
    /\ inbuf' = IF HasEof(inbuf) THEN inbuf ELSE Append(inbuf, EofL)
    /\ pc' = "idle"
    /\ last' = Returned(ctx.op, "ok", <<>>, None, <<>>, None, None)
    /\ UNCHANGED <<ncmd, session, ctx, xchg, mpc>>

(* The steps of the operations a caller of the session can start *)
Step ==
    \/ DrainRead
    \/ ensure_endian("drain_endian", "drain_arch")
    \/ ensure_arch("drain_arch", "idle")
    \/ ExecCommand
    \/ Command("break_insert", "-break-insert", "idle")
    \/ Command("rtm_break", "-break-insert main", "rtm_run")
    \/ RunToMainRun
    \/ StopWait("rtm_wait")
    \/ ControlExec("exec_continue")
    \/ ControlExec("exec_next")
    \/ ControlExec("exec_step")
    \/ StopWait("stop_wait")
    \/ ensure_word_size("md_ws", "md_endian")
    \/ ensure_endian("md_endian", "md_addr")
    \/ DumpAddress
    \/ DumpSizeof
    \/ DumpRead
    \/ DumpFetchType
    \/ DumpVarDelete

-----------------------------------------------------------------------------
(* The session driven through its public operations in any order, from the
   state MiSession::start leaves: the debugger spawned, its banner on the way *)

FirstStep(op) ==
    CASE op = "drain_initial_output" -> "drain_read"
      [] op = "run_to_main" -> "rtm_break"
      [] op = "memory_dump" -> "md_ws"
      [] op = "read_pointer_at" -> "rp_ws"
      [] op = "view" -> "view_sizeof"
      [] OTHER -> op

Started(banner) ==
    /\ inbuf = Emitted(banner)
    /\ stdinOpen = (banner.die # "both")
    /\ ncmd = 0
    /\ session = NewSession
    /\ pc = "idle"
    /\ ctx = NoCtx
    /\ xchg = NoXchg
    /\ last = NoLast
    /\ proc = [child |-> "running", quit |-> FALSE, tfail |-> FALSE]

Init == mpc = "api" /\ \E banner \in Banners : Started(banner)

Call ==
    /\ mpc = "api"
    /\ \E op \in {"drain_initial_output", "exec_command", "break_insert", "run_to_main",
                  "exec_continue", "exec_next", "exec_step", "wait_for_stop"} :
          Begin(op, FirstStep(op), NoCtx)
    /\ UNCHANGED mpc

CallMemoryDump ==
    /\ mpc = "api"
    /\ \E override_len \in {None, Some(0), Some(1), Some(512), Some(513)} :
          Begin("memory_dump", FirstStep("memory_dump"), [NoCtx EXCEPT !.len = override_len])
    /\ UNCHANGED mpc

CallReadPointerAt ==
    /\ mpc = "api"
    /\ \E size_override \in {None, Some(0), Some(2)} :
          Begin("read_pointer_at", FirstStep("read_pointer_at"),
                [NoCtx EXCEPT !.len = size_override])
    /\ UNCHANGED mpc

Next ==
    \/ Call
    \/ CallMemoryDump
    \/ CallReadPointerAt
    \/ Step
    \/ WaitForStop
    \/ ensure_word_size("rp_ws", "rp_endian")
    \/ ensure_endian("rp_endian", "rp_read")
    \/ PointerRead

Spec == Init /\ [][Next]_vars

(* The operations that probe types, called in any order *)
CallProbe ==
    /\ mpc = "api"
    /\ \/ Begin("list_locals", "ll_cmd", NoCtx)
       \/ Begin("eval_expr_type_and_value", "ev_cmd", NoCtx)
       \/ Begin("memory_dump", FirstStep("memory_dump"), [NoCtx EXCEPT !.len = Some(1)])
    /\ UNCHANGED mpc

NextProbe ==
    \/ CallProbe
    \/ ListLocals
    \/ LocalsLoop
    \/ LocalsEvaluate
    \/ VarCreate("ll_create", "ll_delete", "ll_var")
    \/ VarDelete("ll_delete", "ll_var")
    \/ EvalTypeAndValue
    \/ VarCreate("ev_create", "ev_delete", "idle")
    \/ VarDelete("ev_delete", "idle")
    \/ ensure_word_size("md_ws", "md_endian")
    \/ ensure_endian("md_endian", "md_addr")
    \/ DumpAddress
    \/ DumpRead
    \/ DumpFetchType
    \/ DumpVarDelete

SpecProbe == Init /\ [][NextProbe]_vars

(* The inferior stops while no command is being answered, and not because of
   a control command of the session (a signal, an interrupt from outside,
   a breakpoint of a thread left running): the debugger writes the *stopped
   record and a prompt on its own. *)
AsyncStop ==
    /\ mpc = "api" /\ pc = "idle"
    /\ ncmd < MaxCmds
    /\ ~HasEof(inbuf)
    /\ \A i \in DOMAIN inbuf : ~IsStopped(inbuf[i])
    /\ inbuf' = inbuf \o <<StoppedL(0, 1, ""), PromptL>>
    /\ UNCHANGED <<stdinOpen, ncmd, session, pc, ctx, xchg, last, proc, mpc>>

NextAsync == Next \/ AsyncStop

SpecAsync == Init /\ [][NextAsync]_vars

-----------------------------------------------------------------------------
(* The program: main with the REPL (src/main.rs, src/interactive.rs) or
   run_tui (src/tui/mod.rs), from the state MiSession::start leaves to the
   exit of the process.  mpc is the call that was made last; the program goes
   on when that call has returned (pc = "idle"). *)

Exits == {"exit_ok", "exit_err"}

Proceed(at, op, to) ==
    /\ mpc = at
    /\ Begin(op, FirstStep(op), NoCtx)
    /\ mpc' = to

(* the program moves on without a call into the session *)
Move(to) ==
    /\ pc = "idle"
    /\ mpc' = to
    /\ UNCHANGED <<inbuf, stdinOpen, ncmd, session, pc, ctx, xchg, last, proc>>

InitMain == mpc \in {"main", "tui"} /\ \E banner \in Banners : Started(banner)

NextMain ==
    \* main (src/main.rs): drain_initial_output()?, the two probes with ?,
    \* run_to_main()?, then the ensure_* calls, which return nothing
    \/ Proceed("main", "drain_initial_output", "main_drain")
    \/ last.out = "ok" /\ Proceed("main_drain", "exec_command", "main_version")
    \/ last.out = "ok" /\ Proceed("main_version", "exec_command", "main_features")
    \/ last.out = "ok" /\ Proceed("main_features", "run_to_main", "main_rtm")
    \/ last.out = "ok" /\ Proceed("main_rtm", "ensure_word_size", "main_ws")
    \/ Proceed("main_ws", "ensure_arch", "main_arch")
    \/ Proceed("main_arch", "ensure_endian", "main_endian")
    \* a ? of main on an error: main returns it, the session is dropped
    \/ /\ mpc \in {"main_drain", "main_version", "main_features", "main_rtm"}
       /\ last.out # "ok"
       /\ Move("exit_err")
    \* interactive::repl
    \/ mpc = "main_endian" /\ Move("repl")
    \* locals, break, next, step, continue: the error of the operation is
    \* printed and the loop reads the next command
    \/ /\ mpc = "repl"
       /\ \E op \in {"list_locals", "break_insert", "exec_next", "exec_step",
                     "exec_continue"} :
             Begin(op, FirstStep(op), NoCtx)
       /\ UNCHANGED mpc
    \* mem
    \/ /\ mpc = "repl"
       /\ \E override_len \in {None, Some(1)} :
             Begin("memory_dump", FirstStep("memory_dump"),
                   [NoCtx EXCEPT !.len = override_len])
       /\ UNCHANGED mpc
    \* view: handle_view(symbol, session)?, the loop goes on if it returns Ok
    \* and repl returns its error otherwise
    \/ Proceed("repl", "view", "repl_view")
    \/ mpc = "repl_view" /\ last.out = "ok" /\ Move("repl")
    \/ mpc = "repl_view" /\ last.out # "ok" /\ Move("exit_err")
    \* quit, or the end of the program's input: repl returns Ok, main shuts
    \* the session down
    \/ Proceed("repl", "shutdown", "main_shutdown")
    \* a failed read of the program's input or write of the prompt: repl
    \* returns the error through ? and main returns it
    \/ mpc = "repl" /\ Move("exit_err")
    \/ mpc = "main_shutdown" /\ Move("exit_ok")
    \* run_tui (src/tui/mod.rs): drain_initial_output()?, run_to_main()?,
    \* the ensure_* calls
    \/ Proceed("tui", "drain_initial_output", "tui_drain")
    \/ last.out = "ok" /\ Proceed("tui_drain", "run_to_main", "tui_rtm")
    \/ last.out = "ok" /\ Proceed("tui_rtm", "ensure_word_size", "tui_ws")
    \/ Proceed("tui_ws", "ensure_arch", "tui_arch")
    \/ Proceed("tui_arch", "ensure_endian", "tui_endian")
    \/ /\ mpc \in {"tui_drain", "tui_rtm"}
       /\ last.out # "ok"
       /\ Move("exit_err")
    \* Terminal::new and enable_raw_mode: on failure ? returns the error
    \/ /\ mpc = "tui_endian"
       /\ \E failed \in BOOLEAN : Move(IF failed THEN "exit_err" ELSE "tui_loop")
    \* EnterAlternateScreen fails: the session is shut down, the error returned
    \/ Proceed("tui_endian", "shutdown", "tui_abort")
    \/ mpc = "tui_abort" /\ Move("exit_err")
    \* F5: exec_next, then refresh_after_stop: the frame, whose error is put
    \* up with, then the locals
    \/ Proceed("tui_loop", "exec_next", "tui_next")
    \/ last.out = "ok" /\ Proceed("tui_next", "exec_command", "tui_frame")
    \/ Proceed("tui_frame", "list_locals", "tui_locals")
    \/ /\ mpc = "tui_locals"
       /\ Move(IF last.out = "ok" THEN "tui_loop" ELSE "tui_cleanup")
    \/ mpc = "tui_next" /\ last.out # "ok" /\ Move("tui_cleanup")
    \* q, Ctrl-C, or an error of draw, poll or read: the loop ends
    \/ mpc = "tui_loop" /\ Move("tui_cleanup")
    \/ Proceed("tui_cleanup", "shutdown", "tui_shutdown")
    \/ mpc = "tui_shutdown" /\ Move("exit_ok")
    \* the operations the program has started
    \/ Step
    \/ Command("list_locals", "-stack-list-locals 2", "idle")
    \/ handle_view
    \/ ensure_word_size("ensure_word_size", "idle")
    \/ ensure_arch("ensure_arch", "idle")
    \/ ensure_endian("ensure_endian", "idle")
    \/ Shutdown

SpecMain == InitMain /\ [][NextMain]_vars

-----------------------------------------------------------------------------
(* Properties of the session operations, under Spec *)

(* C1: the response returned by the k-th exec_command carries the result
   record the debugger wrote for the k-th command sent, whatever operations,
   stop waits and failed operations came before. *)
C1_ResponsePairedWithCommand ==
    xchg.out = "ok" =>
        /\ xchg.id = ncmd
        /\ IsSome(xchg.result)
        /\ Unwrap(xchg.result).id = xchg.id

(* the third or a later command is answered while a stale prompt was still
   in the pipe: the response ends at the result record and leaves the
   command's own prompt behind *)
C1_Witness ==
    /\ xchg.out = "ok" /\ xchg.id >= 3
    /\ Len(inbuf) > 0 /\ inbuf[Len(inbuf)].k = "prompt"

StopsOf(rd, id) == {j \in DOMAIN rd : IsStopped(rd[j]) /\ rd[j].id = id}

(* C3: exec_next, exec_step and exec_continue return Ok(location) only after
   the result record of their command was consumed, then a *stopped record of
   that command was read, then a prompt after it, which ends the wait; the
   location is the one parsed from the stop record. *)
C3_ControlReturnsAfterStop ==
    (last.op \in ControlOps /\ last.out = "ok") =>
        /\ xchg.out = "ok" /\ IsSome(xchg.result) /\ Unwrap(xchg.result).id = xchg.id
        /\ Len(last.rd) > 0 /\ last.rd[Len(last.rd)].k = "prompt"
        /\ \E j \in StopsOf(last.rd, xchg.id) :
              /\ j < Len(last.rd)
              /\ last.loc = Some(parse_stopped(last.rd[j]))

(* exec_step returns the second location after a wait that read the prompt
   closing the response, the stop record and its prompt *)
C3_Witness ==
    /\ last.op = "exec_step" /\ last.out = "ok"
    /\ Len(last.rd) = 3
    /\ Unwrap(last.loc).line = 2

(* C4: once the debugger has written ^running, the *stopped record and the
   prompts for a control command, the control operation is not left blocked
   on the pipe: it returns the location of that stop record, also when the
   record came before the prompt that closes the ^running response. *)
C4_StopAlwaysReported ==
    (xchg.cmd \in {"-exec-continue", "-exec-next", "-exec-step"} /\ pc = "hung") =>
        ~(\E i \in DOMAIN xchg.oob :
              IsStopped(xchg.oob[i]) /\ xchg.oob[i].id = xchg.id)

(* C8: the bytes of a MemoryDump are not more than the bytes requested,
   whatever memory-contents payload answered the read. *)
C8_DumpWithinRequested ==
    (last.op = "memory_dump" /\ IsSome(last.dump)) =>
        Len(Unwrap(last.dump).bytes) <= Unwrap(last.dump).requested

DumpLen(d) ==
    LET given == IF IsSome(d.len) THEN Unwrap(d.len)
                 ELSE IF IsSome(d.sizeof) /\ Unwrap(d.sizeof).ok THEN Unwrap(d.sizeof).v
                 ELSE 32
    IN  IF given = 0 THEN 32 ELSE given

(* C9: requested = min(L, 512), L being the override, else sizeof(expr),
   else 32, and 32 in place of 0; 1 <= requested <= 512; truncated_from is
   Some(L) exactly when L > 512. *)
C9_RequestedLength ==
    (last.op = "memory_dump" /\ IsSome(last.dump)) =>
        LET d == Unwrap(last.dump)
            L == DumpLen(d)
        IN  /\ d.requested = (IF L < 512 THEN L ELSE 512)
            /\ 1 <= d.requested /\ d.requested <= 512
            /\ d.truncated_from = (IF L > 512 THEN Some(L) ELSE None)

(* a dump without override whose sizeof(expr) is above the cap *)
C9_Witness ==
    /\ last.op = "memory_dump" /\ IsSome(last.dump)
    /\ Unwrap(last.dump).len = None
    /\ Unwrap(last.dump).truncated_from = Some(513)

AfterEnsureEndian ==
    {"drain_arch", "md_addr", "md_sizeof", "md_read", "md_type", "md_vdel", "rp_read"}

(* C10: after ensure_endian has returned the session's endian is Little or
   Big, and so is the endian of every MemoryDump and of every value
   read_pointer_at computes. *)
C10_EndianResolved ==
    /\ pc \in AfterEnsureEndian => session.endian \in {"Little", "Big"}
    /\ (last.op \in {"memory_dump", "read_pointer_at"} /\ IsSome(last.dump)) =>
           Unwrap(last.dump).endian \in {"Little", "Big"}
    /\ (last.op = "drain_initial_output" /\ last.out = "ok") =>
           session.endian \in {"Little", "Big"}

(* read_pointer_at is about to read memory after the debugger answered
   -gdb-show endian with an error, no architecture known *)
C10_Witness ==
    /\ pc = "rp_read"
    /\ xchg.cmd = "-gdb-show endian" /\ xchg.out = "ok"
    /\ Unwrap(xchg.result).st = "error"
    /\ session.arch = "" /\ session.endian = "Little"

(* C15: the out-of-band records the debugger writes after the result record
   of a command and before the prompt that ends its response are returned in
   the oob list of that response: when exec_command has returned the
   response, none of the records written for the command is still unread, to
   be taken for part of a later response. *)
C15_OobStaysWithItsResponse ==
    xchg.out = "ok" =>
        \A i \in DOMAIN inbuf : ~(inbuf[i].k = "oob" /\ inbuf[i].id = xchg.id)

(* C16: a *stopped record the debugger writes while no control command is
   outstanding is left for the next stop-waiting operation: the response
   read of a command that is no control command does not consume it. *)
C16_AsyncStopLeftForWait ==
    (xchg.out = "ok" /\ xchg.cmd \notin {"-exec-run", "-exec-continue", "-exec-next",
                                         "-exec-step"}) =>
        \A i \in DOMAIN xchg.oob : ~(IsStopped(xchg.oob[i]) /\ xchg.oob[i].id = 0)

(* C11: the cached word size is computed at most once per session.  The
   word-size probe (sizeof of a void pointer) is sent only while the word
   size is not yet known, and the step that sends it makes it known; once known, word_size and
   word_known never change and no probe is sent; the first ensure_word_size
   sets word_size to the non-zero size the debugger reported, or to 8 if the
   probe failed or reported 0; word_size >= 1 in every state. *)
WordSizeProbe == "-data-evaluate-expression sizeof(void*)"

C11_WordSizeComputedOnce ==
    /\ [](session.word_size >= 1)
    /\ [][LET probed == ncmd' = ncmd + 1 /\ xchg'.cmd = WordSizeProbe
              res == xchg'.result
              reported == /\ xchg'.cmd = WordSizeProbe /\ xchg'.out = "ok"
                          /\ Unwrap(res).st = "done"
                          /\ Unwrap(res).val.t = "num" /\ Unwrap(res).val.n > 0
          IN  /\ session.word_known =>
                    /\ session'.word_known
                    /\ session'.word_size = session.word_size
                    /\ ~probed
              /\ (probed /\ pc' # "hung") => session'.word_known
              /\ (~session.word_known /\ session'.word_known) =>
                    session'.word_size =
                        IF reported THEN Unwrap(res).val.n ELSE DefaultWordSize
              /\ ~session'.word_known => session'.word_size = DefaultWordSize]_vars

(* a second read_pointer_at has passed ensure_word_size and ensure_endian
   without a command, the word size being the default the first call left *)
C11_Witness ==
    /\ pc = "rp_read" /\ xchg.id = 0 /\ ncmd >= 2
    /\ session.word_known /\ session.word_size = DefaultWordSize

-----------------------------------------------------------------------------
(* Properties of the program, under SpecMain *)

(* C6: after a session operation has failed with a transport error (EOF on
   the debugger's stdout, a failed write to its stdin) the session is over:
   no further command is sent to the debugger, and the program does not exit
   with the child still unreaped. *)
C6_SessionEndsOnTransportError ==
    [][proc.tfail => (ncmd' = ncmd /\ (mpc' \in Exits => proc'.child = "reaped"))]_vars

(* C7: on every exit of the program after the spawn, the normal one and the
   ones with an error, the child has been released by shutdown. *)
C7_ChildReleasedOnExit ==
    mpc \in Exits => proc.child = "reaped"

(* C14: an error of a REPL command, semantic or of the debugger, is reported
   and never ends the REPL: once a command other than quit has been
   dispatched, the loop goes on and repl does not return an error to main. *)
C14_ReplSurvivesCommandErrors ==
    [][mpc = "repl_view" => mpc' # "exit_err"]_vars

-----------------------------------------------------------------------------
(* The read loops on arbitrary streams: every sequence of at most MaxStream
   lines, with the pipe open or closed behind them. *)

Streams ==
    LET lines == {BlankL, PromptL, OobL(1),
                  ResultL(1, "done", NoVal, NoMem, ""),
                  ResultL(2, "error", NoVal, NoMem, ""),
                  StoppedL(1, 1, ""), StoppedL(2, 2, "aarch64")}
        open == SeqsUpTo(lines, MaxStream)
    IN  open \cup {Append(q, EofL) : q \in open}

InitRead ==
    /\ inbuf \in Streams
    /\ stdinOpen = TRUE
    /\ ncmd = 0
    /\ session = NewSession
    /\ pc = "idle"
    /\ ctx = NoCtx
    /\ xchg = NoXchg
    /\ last = NoLast
    /\ proc = [child |-> "running", quit |-> FALSE, tfail |-> FALSE]
    /\ mpc = "reader"

ReadDone(op, r, result, oob, loc) ==
    /\ inbuf' = Rest(inbuf, r)
    /\ last' = Returned(op, r.out, ReadLines(inbuf, r), result, oob, loc, None)
    /\ pc' = IF r.out = "blocked" THEN "hung" ELSE "idle"
    /\ UNCHANGED <<stdinOpen, ncmd, ctx, xchg, proc, mpc>>

RdResponse ==
    /\ mpc = "reader" /\ pc = "idle"
    /\ LET r == read_response(inbuf) IN
       /\ ReadDone("read_response", r, r.result, r.oob, None)
       /\ UNCHANGED session

RdUntilPrompt ==
    /\ mpc = "reader" /\ pc = "idle"
    /\ \E require_result \in BOOLEAN :
         LET r == read_until_prompt(inbuf, require_result) IN
         /\ ReadDone("read_until_prompt", r, None, r.lines, None)
         /\ UNCHANGED session

RdWaitForStop ==
    /\ mpc = "reader" /\ pc = "idle"
    /\ LET r == wait_for_stop(inbuf, session.arch) IN
       /\ ReadDone("wait_for_stop", r, None, <<>>, None)
       /\ session' = [session EXCEPT !.arch = r.arch]

RdWaitForStopCapture ==
    /\ mpc = "reader" /\ pc = "idle"
    /\ LET r == wait_for_stop_capture(inbuf, session.arch) IN
       /\ ReadDone("wait_for_stop_capture", r, None, <<>>,
                   IF r.out = "ok" THEN r.loc ELSE None)
       /\ session' = [session EXCEPT !.arch = r.arch]

NextRead == RdResponse \/ RdUntilPrompt \/ RdWaitForStop \/ RdWaitForStopCapture

SpecRead == InitRead /\ [][NextRead]_vars


-----------------------------------------------------------------------------
(* Properties of the read loops, under SpecRead *)

IsOobRecord(l) == l.k \in {"oob", "stopped"}

(* C2: read_response returns Ok only when it has read a prompt line and a
   result-record line during the call, and the oob list it returns is exactly
   the non-empty lines read during the call that are neither the prompt nor a
   result record, in arrival order. *)
C2_ReadResponseContract ==
    (last.op = "read_response" /\ last.out = "ok") =>
        /\ \E i \in DOMAIN last.rd : last.rd[i].k = "prompt"
        /\ \E i \in DOMAIN last.rd : last.rd[i].k = "result"
        /\ IsSome(last.result) /\ \E i \in DOMAIN last.rd : last.rd[i] = Unwrap(last.result)
        /\ last.oob = SelectSeq(last.rd, IsOobRecord)

(* a response read past a blank line and a stale prompt, with two oob records *)
C2_Witness ==
    /\ last.op = "read_response" /\ last.out = "ok"
    /\ Len(last.oob) = 2
    /\ last.rd[1].k = "prompt"

ReadOps == {"read_response", "read_until_prompt", "wait_for_stop", "wait_for_stop_capture"}

(* C5: in each of the four read loops a zero-length read is the last read of
   the call and the call fails with the "exited unexpectedly" error: no loop
   returns Ok or reads on after EOF, whatever it read before. *)
C5_EofIsFatal ==
    last.op \in ReadOps =>
        \A i \in DOMAIN last.rd :
            last.rd[i].k = "eof" => (i = Len(last.rd) /\ last.out = "eof")

(* the pipe closes after a stop record and before the prompt that follows it *)
C5_Witness ==
    /\ last.op = "wait_for_stop_capture" /\ last.out = "eof"
    /\ Len(last.rd) >= 3
    /\ \E i \in DOMAIN last.rd : IsStopped(last.rd[i])

-----------------------------------------------------------------------------
(* The functions the session computes its results with, applied to inputs
   drawn from bounded sets: ctx holds the input, last the result. *)

Quiet ==
    /\ inbuf = <<>>
    /\ stdinOpen = FALSE
    /\ ncmd = 0
    /\ session = NewSession
    /\ pc = "idle"
    /\ xchg = NoXchg
    /\ last = NoLast
    /\ proc = [child |-> "none", quit |-> FALSE, tfail |-> FALSE]
    /\ mpc = "pure"

Applied(rec) ==
    /\ pc = "idle"
    /\ pc' = "done"
    /\ last' = rec
    /\ UNCHANGED <<inbuf, stdinOpen, ncmd, session, ctx, xchg, proc, mpc>>

-----------------------------------------------------------------------------
(* ^error records: the text between the quotes of msg="..." is written in
   the escape grammar of quoted strings, a backslash before a backslash, a
   quote or an n *)

MaxMsg == 4     \* characters of an error message as written

ErrorKey == "^error,msg=\""

RECURSIVE IsQuoted(_, _)
IsQuoted(m, i) ==
    IF i > Len(m) THEN TRUE
    ELSE IF m[i] = "\"" THEN FALSE
    ELSE IF m[i] = "\\"
    THEN i + 1 <= Len(m) /\ m[i + 1] \in {"\\", "\"", "n"} /\ IsQuoted(m, i + 2)
    ELSE IsQuoted(m, i + 1)

Messages == {m \in SeqsUpTo({"a", "n", "\\", "\""}, MaxMsg) : IsQuoted(m, 1)}

ErrorRecord(m) == <<ErrorKey>> \o m \o <<"\"">>

(* the length of the run of characters other than a quote from position i *)
RECURSIVE QuoteFree(_, _)
QuoteFree(line, i) ==
    IF i > Len(line) \/ line[i] = "\"" THEN 0 ELSE 1 + QuoteFree(line, i + 1)

(* the regular expression msg="([^"]+)": the leftmost msg=" followed by one
   or more characters other than a quote and then a quote *)
parse_msg_field(line) ==
    LET found == {i \in DOMAIN line :
                    /\ line[i] = ErrorKey
                    /\ QuoteFree(line, i + 1) >= 1
                    /\ i + QuoteFree(line, i + 1) + 1 <= Len(line)}
        i == CHOOSE j \in found : \A k \in found : j <= k
    IN  IF found = {} THEN None
        ELSE Some(SubSeq(line, i + 1, i + QuoteFree(line, i + 1)))

(* parse_status of a ^error record: the message of MiStatus::Error *)
ErrorMsg(line) ==
    IF IsSome(parse_msg_field(line)) THEN Unwrap(parse_msg_field(line)) ELSE line

ErrorOps ==
    {"evaluate_expression", "evaluate_sizeof", "eval_expr_u64",
     "eval_expr_type_and_value", "read_memory_bytes"}

InitMsg == Quiet /\ \E m \in Messages : ctx = [msg |-> m, line |-> ErrorRecord(m)]

(* the operation returns Err(format!("{}", msg)) for the status of the record *)
ReturnError ==
    \E op \in ErrorOps :
        Applied([op |-> op, out |-> "gdberr", err |-> ErrorMsg(ctx.line)])

NextMsg == ReturnError

SpecMsg == InitMsg /\ [][NextMsg]_vars

(* C12: the error an operation returns for a ^error record carries the
   message written in the record verbatim, for every message of the escape
   grammar, those with escaped quotes included. *)
C12_ErrorMessageVerbatim ==
    (pc = "done" /\ last.op \in ErrorOps) => last.err = ctx.msg

-----------------------------------------------------------------------------
(* handle_follow (src/interactive/follow.rs): the depth argument and the
   walk of the pointer chain, from the point where the symbol has been found
   to be a non-null pointer to a struct with a link field.  Addresses are
   AddrBits wide; mem is what read_pointer_at returns for the link field at
   each address, a value or ReadError. *)

MaxDepth == 2       \* largest depth given on the command line
AddrBits == 2
AddrMax == 2 ^ AddrBits - 1
DefaultDepth == 8

(* follow <symbol> [depth]: no depth, a number, or text that parse::<usize>
   rejects (NotANumber) *)
NotANumber == -1
DepthArgs == {None} \cup {Some(d) : d \in {NotANumber} \cup 0..MaxDepth}

(* the result of a read_pointer_at that failed *)
ReadError == -1

InitFollow ==
    /\ Quiet
    /\ \E arg \in DepthArgs, addr \in 1..AddrMax, offset \in {0, 1},
          mem \in [1..AddrMax -> (0..AddrMax) \cup {ReadError}] :
          ctx = [arg |-> arg, addr |-> addr, offset |-> offset, mem |-> mem,
                 depth |-> 0, i |-> 0, reads |-> 0, stop |-> "none"]

(* a range that yields one index more *)
RangeDoneLate(i, depth) == i >= depth + 1

(* for i in 0..depth: whether the range is used up *)
RangeDone(i, depth) == i >= depth

FollowEnd(stop) ==
    /\ pc' = "done"
    /\ ctx' = [ctx EXCEPT !.stop = stop]

(* the depth argument is parsed; without a positive depth follow prints a
   message and returns *)
FollowDepth ==
    /\ mpc = "pure" /\ pc = "idle"
    /\ IF ctx.arg = None
       THEN pc' = "walk" /\ ctx' = [ctx EXCEPT !.depth = DefaultDepth]
       ELSE IF Unwrap(ctx.arg) = NotANumber THEN FollowEnd("invalid depth")
       ELSE IF Unwrap(ctx.arg) > 0
       THEN pc' = "walk" /\ ctx' = [ctx EXCEPT !.depth = Unwrap(ctx.arg)]
       ELSE FollowEnd("depth must be positive")
    /\ UNCHANGED <<inbuf, stdinOpen, ncmd, session, xchg, last, proc, mpc>>

(* one iteration of the loop, or its end *)
FollowHop ==
    /\ mpc = "pure" /\ pc = "walk"
    /\ LET field_addr == ctx.addr + ctx.offset IN
       IF RangeDone(ctx.i, ctx.depth) THEN FollowEnd("limit")
       ELSE IF ctx.addr = 0 THEN FollowEnd("null")
       ELSE IF field_addr > AddrMax THEN FollowEnd("overflow")
       ELSE IF ctx.mem[field_addr] = ReadError
       THEN pc' = "done" /\ ctx' = [ctx EXCEPT !.stop = "read error", !.reads = @ + 1]
       ELSE pc' = "walk" /\ ctx' = [ctx EXCEPT !.addr = ctx.mem[field_addr],
                                               !.reads = @ + 1, !.i = @ + 1]
    /\ UNCHANGED <<inbuf, stdinOpen, ncmd, session, xchg, last, proc, mpc>>

NextFollow == FollowDepth \/ FollowHop

SpecFollow == InitFollow /\ [][NextFollow]_vars /\ WF_vars(NextFollow)

(* C13: the walk of handle_follow always terminates.  It runs at most
   hop_limit iterations (the depth given, 8 by default) and reads the link
   field at most hop_limit times; at a zero address, at an address whose
   link field lies past the end of the address space and at a failed read it
   ends at once, reading nothing more; this for every memory, cyclic pointer
   chains included. *)
C13_FollowTerminates ==
    /\ <>(pc = "done")
    /\ [](/\ ctx.i <= ctx.depth
          /\ ctx.reads <= ctx.depth
          /\ pc = "walk" =>
                ctx.depth = (IF ctx.arg = None THEN DefaultDepth ELSE Unwrap(ctx.arg)))
    /\ [][pc = "walk" =>
            /\ (ctx.addr = 0 \/ ctx.addr + ctx.offset > AddrMax) =>
                    (pc' = "done" /\ ctx'.reads = ctx.reads)
            /\ ctx'.stop = "read error" => pc' = "done"
            /\ ctx'.reads <= ctx.reads + 1]_vars

(* a cyclic chain walked with the default depth: eight hops, eight reads *)
C13_Witness ==
    /\ pc = "done" /\ ctx.arg = None /\ ctx.stop = "limit"
    /\ ctx.i = DefaultDepth /\ ctx.reads = DefaultDepth

-----------------------------------------------------------------------------
(* Annotated pretty-type text (ptype /o): one line per member carrying its
   offset from the start of the outermost struct and its size, a line for a
   hole, a line opening a nested struct, a "total size" line and a closing
   brace line for every struct, the nested ones included *)

MaxMembers == 3     \* members of the outermost struct
MaxNested == 2      \* members of a nested struct

RECURSIVE Sum(_)
Sum(sizes) == IF sizes = <<>> THEN 0 ELSE Head(sizes) + Sum(Tail(sizes))

(* the members a struct is declared with: a scalar of one or two bytes, a
   hole of one byte, a nested struct of scalars, or a bit-field in a byte of
   its own.  decl is the declaration after the annotation, without its
   semicolon, as its space-separated parts, each a sequence of characters
   (T a type word, f a name, 1 a width); bits tells how the annotation
   gives the bit offset of a bit-field: "0:31" for a two-digit one, "0: 5"
   for a one-digit one, padded *)
Members ==
    [k : {"scalar"}, sizes : {<<1>>, <<2>>}, decl : {<<<<"T">>, <<"f">>>>}, bits : {""}]
        \cup [k : {"hole"}, sizes : {<<1>>}, decl : {<<>>}, bits : {""}]
        \cup [k : {"struct"},
              sizes : UNION {[1..n -> {1, 2}] : n \in 1..MaxNested},
              decl : {<<<<"T">>, <<"{">>>>}, bits : {""}]
        \cup [k : {"bitfield"}, sizes : {<<1>>},
              decl : {<<<<"T">>, <<"f", ":", "1">>>>,
                      <<<<"T">>, <<"f">>, <<":">>, <<"1">>>>,
                      <<<<"T">>, <<"f", ":">>, <<"1">>>>,
                      <<<<"T">>, <<"f">>, <<":", "1">>>>},
              bits : {"0:31", "0: 5"}]

(* the lines the debugger prints for the member m placed at offset off; an
   annotation with a padded bit offset is not of the form the parser's
   pattern for annotations accepts *)
MemberLines(m, off) ==
    CASE m.k = "scalar" ->
            <<[k |-> "field", offset |-> off, size |-> m.sizes[1], decl |-> m.decl]>>
      [] m.k = "hole" -> <<[k |-> "XXX", offset |-> off, size |-> m.sizes[1], decl |-> <<>>]>>
      [] m.k = "bitfield" ->
            <<[k |-> IF m.bits = "0:31" THEN "field" ELSE "unmatched",
               offset |-> off, size |-> m.sizes[1], decl |-> m.decl]>>
      [] m.k = "struct" ->
            <<[k |-> "field", offset |-> off, size |-> Sum(m.sizes), decl |-> m.decl]>>
            \o [j \in 1..Len(m.sizes) |->
                    [k |-> "field", offset |-> off + Sum(SubSeq(m.sizes, 1, j - 1)),
                     size |-> m.sizes[j], decl |-> <<<<"T">>, <<"f">>>>]]
            \o <<[k |-> "total size", offset |-> 0, size |-> Sum(m.sizes), decl |-> <<>>],
                 [k |-> "}", offset |-> 0, size |-> 0, decl |-> <<>>]>>

RECURSIVE PtypeLines(_, _)
PtypeLines(members, off) ==
    IF members = <<>>
    THEN <<[k |-> "total size", offset |-> 0, size |-> off, decl |-> <<>>],
           [k |-> "}", offset |-> 0, size |-> 0, decl |-> <<>>]>>
    ELSE MemberLines(Head(members), off)
            \o PtypeLines(Tail(members), off + Sum(Head(members).sizes))

(* the loop over the lines after the header: it ends at the first line that
   starts with a closing brace, keeps the number of the latest "total size"
   line, skips holes and the lines whose annotation its pattern does not
   match; of any other annotated line it takes the text after the last
   space of the declaration as the name, skips the line when that name
   contains a colon, and else pushes a field, in the order of the text, its
   offset and size as written *)
RECURSIVE parse_struct_block(_, _, _)
parse_struct_block(lines, fields, total_size) ==
    IF lines = <<>> \/ Head(lines).k = "}"
    THEN IF fields = <<>> THEN None
         ELSE Some([size |-> IF total_size # None THEN Unwrap(total_size)
                             ELSE fields[Len(fields)].offset + fields[Len(fields)].size,
                    fields |-> fields])
    ELSE LET line == Head(lines)
             name_part == line.decl[Len(line.decl)]
         IN  CASE line.k = "total size" ->
                    parse_struct_block(Tail(lines), fields, Some(line.size))
               [] line.k \in {"XXX", "unmatched"} ->
                    parse_struct_block(Tail(lines), fields, total_size)
               [] OTHER ->
                    IF Len(line.decl) < 2 \/ \E i \in DOMAIN name_part : name_part[i] = ":"
                    THEN parse_struct_block(Tail(lines), fields, total_size)
                    ELSE parse_struct_block(Tail(lines),
                            Append(fields, [name |-> name_part, offset |-> line.offset,
                                            size |-> line.size]),
                            total_size)

RECURSIVE BitfieldOffsets(_, _)
BitfieldOffsets(members, off) ==
    IF members = <<>> THEN {}
    ELSE (IF Head(members).k = "bitfield" THEN {off} ELSE {})
            \cup BitfieldOffsets(Tail(members), off + Sum(Head(members).sizes))

InitLayout ==
    /\ Quiet
    /\ \E n \in 1..MaxMembers : \E members \in [1..n -> Members] :
            ctx = [members |-> members, text |-> PtypeLines(members, 0)]

parse_ptype_output ==
    Applied([op |-> "parse_ptype_output",
             layout |-> parse_struct_block(ctx.text, <<>>, None)])

SpecLayout == InitLayout /\ [][parse_ptype_output]_vars

(* C17: in every Struct layout returned by parse_ptype_output the fields are
   in non-decreasing offset order, no field extends past the total size
   (offset + size <= total size), and the total size is at least the largest
   offset + size of the fields. *)
C17_StructLayoutWithinSize ==
    (pc = "done" /\ last.op = "parse_ptype_output" /\ last.layout # None) =>
        LET layout == Unwrap(last.layout) IN
        /\ \A i, j \in DOMAIN layout.fields :
                i <= j => layout.fields[i].offset <= layout.fields[j].offset
        /\ \A i \in DOMAIN layout.fields :
                layout.fields[i].offset + layout.fields[i].size <= layout.size

-----------------------------------------------------------------------------
(* The escape grammar of quoted strings.  A string is a sequence of
   characters: an ordinary letter, the digit 0, the letters n and t (which
   follow a backslash in the escapes of newline and tab), backslash, double
   quote, newline and tab *)

MaxStr == 4     \* characters of a string handed to mi_escape or unescape_value

Chars == {"a", "0", "n", "t", "\\", "\"", "\n", "\t"}

RECURSIVE LeadingZeros(_)
LeadingZeros(chars) ==
    IF chars # <<>> /\ Head(chars) = "0" THEN 1 + LeadingZeros(Tail(chars)) ELSE 0

(* after a backslash the next character is only peeked: the four escapes
   consume it, the 0 arm pushes a backslash and a 0 without consuming it and
   then pushes one more 0 for every 0 it consumes, any other character (or
   none) leaves the backslash as it is *)
RECURSIVE unescape_value(_)
unescape_value(raw) ==
    IF raw = <<>> THEN <<>>
    ELSE LET c == Head(raw)
             rest == Tail(raw)
         IN  IF c = "\\" /\ rest # <<>> /\ Head(rest) \in {"\\", "\"", "n", "t", "0"}
             THEN CASE Head(rest) = "\\" -> <<"\\">> \o unescape_value(Tail(rest))
                    [] Head(rest) = "\"" -> <<"\"">> \o unescape_value(Tail(rest))
                    [] Head(rest) = "n" -> <<"\n">> \o unescape_value(Tail(rest))
                    [] Head(rest) = "t" -> <<"\t">> \o unescape_value(Tail(rest))
                    [] Head(rest) = "0" ->
                        <<"\\", "0">> \o [i \in 1..LeadingZeros(rest) |-> "0"]
                            \o unescape_value(SubSeq(rest, LeadingZeros(rest) + 1, Len(rest)))
             ELSE <<c>> \o unescape_value(rest)

RECURSIVE Escaped(_)
Escaped(expr) ==
    IF expr = <<>> THEN <<>>
    ELSE (CASE Head(expr) = "\\" -> <<"\\", "\\">>
            [] Head(expr) = "\"" -> <<"\\", "\"">>
            [] Head(expr) = "\n" -> <<"\\", "n">>
            [] Head(expr) = "\t" -> <<"\\", "t">>
            [] OTHER -> <<Head(expr)>>) \o Escaped(Tail(expr))

mi_escape(expr) == <<"\"">> \o Escaped(expr) \o <<"\"">>

InitEscape ==
    /\ Quiet
    /\ \E n \in 0..MaxStr : \E s \in [1..n -> Chars] : ctx = [s |-> s]

NextEscape ==
    \/ Applied([op |-> "round_trip", out |-> unescape_value(mi_escape(ctx.s))])
    \/ Applied([op |-> "unescape_value", out |-> unescape_value(ctx.s)])

SpecEscape == InitEscape /\ [][NextEscape]_vars

(* C18: escape round trip: for every string s of ordinary characters,
   backslashes, double quotes, newlines and tabs,
   unescape_value(mi_escape(s)) = s; and unescape_value leaves the \0 and
   \000 runs of its input unchanged: an input whose backslashes are each
   followed by a 0 comes back as it was. *)
C18_EscapeRoundTrip ==
    pc = "done" =>
        /\ last.op = "round_trip" => last.out = ctx.s
        /\ (/\ last.op = "unescape_value"
            /\ \A i \in DOMAIN ctx.s :
                    ctx.s[i] = "\\" => (i < Len(ctx.s) /\ ctx.s[i + 1] = "0"))
                => last.out = ctx.s

-----------------------------------------------------------------------------
(* bytes_to_u64 on byte slices of every length up to MaxBytes.  A u64 is
   written as its eight base-256 digits, the least significant first, since
   its value does not fit the integers of the checker; the value itself is
   computed for the slices of at most three bytes *)

MaxBytes == 9       \* bytes of the slice handed to bytes_to_u64

ByteVals == {0, 1, 255}

copy_to_front(bytes, endian) ==
    [i \in 1..8 |-> IF i <= Len(bytes) /\ i <= 8 THEN bytes[i] ELSE 0]

(* buf after copy_from_slice: the first min(8, len) bytes at the end of the
   zeroed buffer for Big, at its start otherwise *)
copy_from_slice(bytes, endian) ==
    LET len == IF Len(bytes) < 8 THEN Len(bytes) ELSE 8 IN
    IF endian = "Big"
    THEN [i \in 1..8 |-> IF i > 8 - len THEN bytes[i - (8 - len)] ELSE 0]
    ELSE [i \in 1..8 |-> IF i <= len THEN bytes[i] ELSE 0]

(* u64::from_be_bytes and u64::from_le_bytes: the digits of the number, the
   least significant first *)
from_bytes(buf, endian) ==
    IF endian = "Big" THEN [i \in 1..8 |-> buf[9 - i]] ELSE buf

InitBytes ==
    /\ Quiet
    /\ \E n \in 0..MaxBytes : \E bytes \in [1..n -> ByteVals] :
       \E endian \in {"Little", "Big", "Unknown"} :
            ctx = [bytes |-> bytes, endian |-> endian]

BytesToU64 ==
    Applied([op |-> "bytes_to_u64",
             digits |-> from_bytes(copy_from_slice(ctx.bytes, ctx.endian), ctx.endian),
             value |-> IF Len(ctx.bytes) <= 3 THEN bytes_to_u64(ctx.bytes, ctx.endian)
                       ELSE 0])

SpecBytes == InitBytes /\ [][BytesToU64]_vars

(* C19: bytes_to_u64(bs, Little) is the base-256 little-endian value of the
   first min(8, len(bs)) bytes of bs, zero-padded to 8 bytes, and
   bytes_to_u64(bs, Big) is the big-endian value of those same bytes: the
   digit of 256^k is the byte k places from the start (Little) or from the
   end (Big) of those bytes, and 0 from min(8, len(bs)) on, whatever the top
   bit of the last byte; the empty input yields 0. *)
C19_EndianLaw ==
    (pc = "done" /\ last.op = "bytes_to_u64" /\ ctx.endian \in {"Little", "Big"}) =>
        LET bs == ctx.bytes
            n == IF Len(bs) < 8 THEN Len(bs) ELSE 8
        IN  /\ \A k \in 0..7 :
                    last.digits[k + 1] =
                        IF k >= n THEN 0
                        ELSE IF ctx.endian = "Little" THEN bs[k + 1] ELSE bs[n - k]
            /\ n = 0 => last.value = 0
            /\ Len(bs) <= 3 =>
                    last.value = last.digits[1] + 256 * last.digits[2]
                                    + 65536 * last.digits[3]

(* a big-endian slice longer than the buffer, and a short one whose last
   byte has its top bit set *)
C19_Witness ==
    /\ pc = "done" /\ last.op = "bytes_to_u64" /\ ctx.endian = "Big"
    /\ \/ Len(ctx.bytes) = MaxBytes /\ ctx.bytes[1] = 255 /\ ctx.bytes[MaxBytes] = 1
       \/ Len(ctx.bytes) = 2 /\ ctx.bytes[1] = 255 /\ last.value = 65281

-----------------------------------------------------------------------------
(* Type names: sequences of a letter, the space and the opening bracket *)

MaxType == 4        \* characters of a type name

(* the trimmed text without the spaces that stand right before a "[": one
   pass, each space judged by the character that follows it in the trimmed
   text *)
normalize_type_name(s) ==
    LET trimmed == Trim(s)
        kept == {i \in DOMAIN trimmed :
                    ~(trimmed[i] = " " /\ i < Len(trimmed) /\ trimmed[i + 1] = "[")}
    IN  [j \in 1..Cardinality(kept) |->
            trimmed[CHOOSE i \in kept : Cardinality({k \in kept : k <= i}) = j]]

InitType ==
    /\ Quiet
    /\ \E n \in 0..MaxType : \E s \in [1..n -> {"a", " ", "["}] : ctx = [s |-> s]

NormalizeTwice ==
    Applied([op |-> "normalize_type_name",
             once |-> normalize_type_name(ctx.s),
             twice |-> normalize_type_name(normalize_type_name(ctx.s))])

SpecType == InitType /\ [][NormalizeTwice]_vars

(* C20: normalize_type_name is idempotent: for every type string t,
   normalize_type_name(normalize_type_name(t)) = normalize_type_name(t). *)
C20_NormalizeIdempotent ==
    (pc = "done" /\ last.op = "normalize_type_name") => last.twice = last.once

-----------------------------------------------------------------------------
(* Pointer type names: sequences of a letter, the space and the star *)

(* trim, pop the stars the trimmed text ends with (the loop stops at the
   first character that is no star, a space included), trim again *)
strip_pointer_suffix(ty) ==
    LET trimmed == Trim(ty)
        n == Len(trimmed)
        stars == CHOOSE k \in 0..n :
                    /\ \A i \in (n - k + 1)..n : trimmed[i] = "*"
                    /\ k = n \/ trimmed[n - k] # "*"
    IN  Trim(SubSeq(trimmed, 1, n - stars))

InitStrip ==
    /\ Quiet
    /\ \E n \in 0..MaxType : \E ty \in [1..n -> {"a", " ", "*"}] : ctx = [ty |-> ty]

StripTwice ==
    Applied([op |-> "strip_pointer_suffix",
             once |-> strip_pointer_suffix(ctx.ty),
             twice |-> strip_pointer_suffix(strip_pointer_suffix(ctx.ty))])

SpecStrip == InitStrip /\ [][StripTwice]_vars

(* C21: strip_pointer_suffix removes all trailing stars and the surrounding
   whitespace of a type string and is idempotent: for every type string t,
   strip_pointer_suffix(strip_pointer_suffix(t)) = strip_pointer_suffix(t),
   and the result never ends with a star or with whitespace. *)
C21_StripPointerSuffix ==
    (pc = "done" /\ last.op = "strip_pointer_suffix") =>
        /\ last.twice = last.once
        /\ last.once # <<>> => last.once[Len(last.once)] \notin {"*", " "}

-----------------------------------------------------------------------------
(* run_to_main in the session driven through its operations (Spec) *)

(* C22: run_to_main sends -break-insert main first and sends -exec-run only
   if the breakpoint insertion did not answer with an error; it returns an
   error when either command answers ^error; otherwise it returns a stop
   location only after a *stopped record has been read, taken from the
   out-of-band lines of the -exec-run response or from the stop wait that
   follows. *)
C22_RunToMainOrder ==
    /\ [][LET sends(cmd) == ncmd' = ncmd + 1 /\ xchg'.cmd = cmd
              answered == xchg'.out = "ok" /\ Status(xchg') = "Error"
          IN  /\ (pc # "idle" /\ ctx.op = "run_to_main" /\ ncmd' # ncmd) =>
                    (sends("-break-insert main") \/ sends("-exec-run"))
              /\ sends("-exec-run") =>
                    /\ xchg.cmd = "-break-insert main" /\ xchg.id = ncmd
                    /\ xchg.out = "ok" /\ Status(xchg) # "Error"
              /\ ((sends("-break-insert main") \/ sends("-exec-run")) /\ answered) =>
                    (pc' = "idle" /\ last'.op = "run_to_main" /\ last'.out = "gdberr")]_vars
    /\ []((last.op = "run_to_main" /\ last.out = "ok") =>
            \/ /\ last.rd = <<>>
               /\ \E i \in DOMAIN last.oob :
                    /\ IsStopped(last.oob[i])
                    /\ last.loc = Some(parse_stopped(last.oob[i]))
            \/ \E j \in DOMAIN last.rd :
                    /\ IsStopped(last.rd[j])
                    /\ last.loc = Some(parse_stopped(last.rd[j])))

(* run_to_main has returned the location of a stop record that came with
   the -exec-run response, without a stop wait *)
C22_Witness ==
    /\ last.op = "run_to_main" /\ last.out = "ok" /\ last.rd = <<>>
    /\ xchg.cmd = "-exec-run" /\ IsSome(last.loc)

-----------------------------------------------------------------------------
(* The type probe in the operations that use it (SpecProbe) *)

(* C23: the type probe is create-then-delete.  Once the response to a
   -var-create is read that reports the object created under a name, the
   next thing the session does is send the -var-delete of that name, and no
   operation returns in between; so no sequence of list_locals, memory_dump
   and eval_expr_type_and_value calls returns with a probe object of its own
   still to delete.  A probe that fails, whatever the failure, never makes
   list_locals fail: past its own command list_locals returns Ok. *)
C23_ProbeCreateThenDelete ==
    /\ [](pc = "idle" =>
            ~(/\ xchg.cmd = "-var-create" /\ xchg.out = "ok" /\ Status(xchg) = "Done"
              /\ IsSome(parse_var_name(Unwrap(xchg.result)))))
    /\ [][/\ (/\ xchg.cmd = "-var-create" /\ xchg.out = "ok" /\ Status(xchg) = "Done"
              /\ IsSome(parse_var_name(Unwrap(xchg.result)))) =>
                xchg'.cmd = "-var-delete " \o Unwrap(parse_var_name(Unwrap(xchg.result)))
          /\ (pc \in {"ll_var", "ll_eval", "ll_create", "ll_delete"} /\ pc' = "idle") =>
                (last'.op = "list_locals" /\ last'.out = "ok")]_vars

(* list_locals has returned Ok after a probe whose object was deleted, the
   debugger gone by the time of a later probe *)
C23_Witness ==
    /\ pc = "idle" /\ last.op = "list_locals" /\ last.out = "ok"
    /\ xchg.cmd = "-var-delete var1" /\ xchg.out = "ok" /\ Status(xchg) = "Done"

-----------------------------------------------------------------------------
(* Pretty-type text that announces an array: the line "type = T [N]", T one
   or more words.  The text after "type =" is held as its whitespace-separated
   parts, a word or the bracketed length *)

MaxArrayLen == 5    \* the length N announced

ElemTypes ==
    {<<"char">>, <<"short">>, <<"int">>, <<"long">>, <<"double">>,
     <<"unsigned", "int">>, <<"long", "long">>, <<"unsigned", "long", "long">>}

base_type_size(type_name, word_size) ==
    CASE type_name[Len(type_name)] = "*" -> IF word_size > 1 THEN word_size ELSE 1
      [] type_name \in {<<"char">>, <<"unsigned", "char">>, <<"signed", "char">>} -> 1
      [] type_name \in {<<"short">>, <<"unsigned", "short">>} -> 2
      [] type_name \in {<<"int">>, <<"unsigned", "int">>} -> 4
      [] type_name \in {<<"long">>, <<"unsigned", "long">>, <<"long", "int">>,
                        <<"unsigned", "long", "int">>} ->
            IF word_size > 4 THEN word_size ELSE 4
      [] type_name \in {<<"long", "long">>, <<"unsigned", "long", "long">>} -> 8
      [] type_name = <<"float">> -> 4
      [] type_name = <<"double">> -> 8
      [] OTHER -> IF word_size > 1 THEN word_size ELSE 1

(* the first part is the element type, the second must be the bracketed
   length; anything else is no array line *)
parse_array_line(parts, word_size) ==
    IF Len(parts) >= 2 /\ parts[2].w = "[N]"
    THEN Some([form |-> "Array", elem_type |-> <<parts[1].w>>, len |-> parts[2].n,
               elem_size |-> base_type_size(<<parts[1].w>>, word_size),
               size |-> base_type_size(<<parts[1].w>>, word_size) * parts[2].n])
    ELSE None

InitArray ==
    /\ Quiet
    /\ \E ty \in ElemTypes : \E len \in 0..MaxArrayLen : \E word_size \in {4, 8} :
            ctx = [ty |-> ty, len |-> len, word_size |-> word_size,
                   parts |-> [i \in 1..Len(ty) |-> [w |-> ty[i], n |-> 0]]
                                \o <<[w |-> "[N]", n |-> len]>>]

(* parse_ptype_output on a text with no struct block: the array form first,
   else the scalar form *)
ParseArrayText ==
    Applied([op |-> "parse_ptype_output",
             layout |-> IF parse_array_line(ctx.parts, ctx.word_size) # None
                        THEN Unwrap(parse_array_line(ctx.parts, ctx.word_size))
                        ELSE [form |-> "Scalar", elem_type |-> <<>>, len |-> 0,
                              elem_size |-> 0, size |-> 0]])

SpecArray == InitArray /\ [][ParseArrayText]_vars

(* C24: whenever the pretty-type text announces type = T [N] at top level,
   for every element type T, of one word such as int or of several such as
   unsigned int, parse_ptype_output returns Array with element type T,
   length N, element size base_size(T, word_size) and total size element
   size x N, in preference to the struct and scalar forms. *)
C24_ArrayLayout ==
    (pc = "done" /\ last.op = "parse_ptype_output") =>
        /\ last.layout.form = "Array"
        /\ last.layout.elem_type = ctx.ty
        /\ last.layout.len = ctx.len
        /\ last.layout.elem_size = base_type_size(ctx.ty, ctx.word_size)
        /\ last.layout.size = last.layout.elem_size * ctx.len

-----------------------------------------------------------------------------
(* C25: bit-field members of an annotated struct are skipped entirely: for
   every bit-field declaration line, with or without spaces around the
   colon, the Struct layout returned by parse_ptype_output has no field for
   that member, that is, no field at the offset of a bit-field. *)
C25_BitfieldsSkipped ==
    (pc = "done" /\ last.op = "parse_ptype_output" /\ last.layout # None) =>
        \A i \in DOMAIN Unwrap(last.layout).fields :
            Unwrap(last.layout).fields[i].offset \notin BitfieldOffsets(ctx.members, 0)

-----------------------------------------------------------------------------
(* The link field of a struct layout.  A field has a name, a type name (a
   sequence of characters: T a type word, the star, the brackets) and its
   place in the declaration as offset *)

MaxFields == 3      \* fields of the layout

(* contains a star and no bracket *)
is_pointer_type(ty) ==
    /\ \E i \in DOMAIN ty : ty[i] = "*"
    /\ \A i \in DOMAIN ty : ty[i] \notin {"[", "]"}

(* the loop over the fields: a pointer field named next is returned at
   once, the first pointer field is remembered *)
RECURSIVE PointerLoop(_, _)
PointerLoop(fields, first_ptr) ==
    IF fields = <<>> THEN first_ptr
    ELSE IF is_pointer_type(Head(fields).type_name)
    THEN IF Head(fields).name = "next" THEN Some(Head(fields))
         ELSE PointerLoop(Tail(fields),
                          IF first_ptr = None THEN Some(Head(fields)) ELSE first_ptr)
    ELSE PointerLoop(Tail(fields), first_ptr)

(* a search with no preference for the name next *)
find_first_pointer(layout) ==
    IF layout.form # "Struct" \/ \A i \in DOMAIN layout.fields :
                                    ~is_pointer_type(layout.fields[i].type_name)
    THEN None
    ELSE Some(layout.fields[CHOOSE i \in DOMAIN layout.fields :
                /\ is_pointer_type(layout.fields[i].type_name)
                /\ \A j \in 1..(i - 1) : ~is_pointer_type(layout.fields[j].type_name)])

find_pointer_field(layout) ==
    IF layout.form = "Struct" THEN PointerLoop(layout.fields, None) ELSE None

InitLink ==
    /\ Quiet
    /\ \E form \in {"Struct", "Array", "Scalar"} : \E n \in 0..MaxFields :
       \E names \in [1..n -> {"next", "a", "b"}] :
       \E types \in [1..n -> {<<"T">>, <<"T", "*">>, <<"T", "*", "[", "]">>}] :
            /\ form # "Struct" => n = 0
            /\ ctx = [layout |-> [form |-> form,
                                  fields |-> [i \in 1..n |->
                                        [name |-> names[i], type_name |-> types[i],
                                         offset |-> i]]]]

(* handle_follow picks the link field, or says that there is none and
   returns *)
FollowLink ==
    LET link_field == find_pointer_field(ctx.layout) IN
    Applied([op |-> "handle_follow", link_field |-> link_field,
             msg |-> IF link_field = None THEN "has no pointer field to follow" ELSE ""])

SpecLink == InitLink /\ [][FollowLink]_vars

(* C26: find_pointer_field returns, for a Struct layout, the field literally
   named next when the struct has one; otherwise the first pointer-typed
   field in declaration order; otherwise none; for a non-Struct layout it
   returns none.  handle_follow uses exactly this field as link field and
   gives a message when there is none. *)
C26_LinkField ==
    (pc = "done" /\ last.op = "handle_follow") =>
        LET fields == ctx.layout.fields
            nexts == {i \in DOMAIN fields : fields[i].name = "next"}
            ptrs == {i \in DOMAIN fields : is_pointer_type(fields[i].type_name)}
            first(S) == CHOOSE i \in S : \A j \in S : i <= j
        IN  /\ last.link_field =
                    IF ctx.layout.form # "Struct" THEN None
                    ELSE IF nexts # {} THEN Some(fields[first(nexts)])
                    ELSE IF ptrs # {} THEN Some(fields[first(ptrs)])
                    ELSE None
            /\ (last.msg # "") = (last.link_field = None)

(* C26, amended: the field named next is preferred among the pointer-typed
   fields only: find_pointer_field returns the first pointer-typed field
   named next when there is one; otherwise the first pointer-typed field in
   declaration order; otherwise none; for a non-Struct layout none.
   handle_follow uses this field as link field and gives a message when
   there is none. *)
C26_LinkFieldAmongPointers ==
    (pc = "done" /\ last.op = "handle_follow") =>
        LET fields == ctx.layout.fields
            ptrs == {i \in DOMAIN fields : is_pointer_type(fields[i].type_name)}
            nexts == {i \in ptrs : fields[i].name = "next"}
            first(S) == CHOOSE i \in S : \A j \in S : i <= j
        IN  /\ last.link_field =
                    IF ctx.layout.form # "Struct" THEN None
                    ELSE IF nexts # {} THEN Some(fields[first(nexts)])
                    ELSE IF ptrs # {} THEN Some(fields[first(ptrs)])
                    ELSE None
            /\ (last.msg # "") = (last.link_field = None)

(* a struct whose first pointer field is not the one named next, and whose
   field named next before it is no pointer *)
C26_Witness ==
    /\ pc = "done" /\ last.op = "handle_follow" /\ Len(ctx.layout.fields) = 3
    /\ ctx.layout.fields[1].name = "next" /\ ctx.layout.fields[1].type_name = <<"T">>
    /\ ctx.layout.fields[2].name = "a" /\ ctx.layout.fields[2].type_name = <<"T", "*">>
    /\ ctx.layout.fields[3].name = "next" /\ ctx.layout.fields[3].type_name = <<"T", "*">>
    /\ last.link_field = Some(ctx.layout.fields[3])

-----------------------------------------------------------------------------
(* The memory map of the inferior.  A line of /proc/<pid>/maps has a range
   start-end, each a base-16 number or a text that is none (NotANumber),
   the permissions and the pathname; addresses are those of the small
   address space 0..AddrMax *)

MaxRegions == 2     \* lines of the maps file

MapsLines ==
    [start : {NotANumber, 2}, end : {2, 3},
     perms : {"r-xp", "rw-p", "r--p"},
     pathname : {"[heap]", "[stack]", "", "/usr/lib/libc.so.6", "/bin/app"}]

(* a classification that looks at the permissions before the pathname of a
   library *)
classify_perms_first(perms, pathname) ==
    IF pathname = "[heap]" THEN "Heap"
    ELSE IF pathname = "[stack]" THEN "Stack"
    ELSE IF pathname = "" THEN "Anonymous"
    ELSE IF perms \in {"r-xp", "r-xs"} THEN "Text"
    ELSE IF perms \in {"rw-p", "rw-s"} THEN "Data"
    ELSE IF pathname \in {"/usr/lib/libc.so.6"} THEN "Lib"
    ELSE "Other"

(* path.contains("lib") || path.contains(".so") holds of the library's
   pathname only; perms.starts_with leaves the last character open *)
classify_region_label(perms, pathname) ==
    IF pathname = "[heap]" THEN "Heap"
    ELSE IF pathname = "[stack]" THEN "Stack"
    ELSE IF pathname = "" THEN "Anonymous"
    ELSE IF pathname \in {"/usr/lib/libc.so.6"} THEN "Lib"
    ELSE IF perms \in {"r-xp", "r-xs"} THEN "Text"
    ELSE IF perms \in {"rw-p", "rw-s"} THEN "Data"
    ELSE "Other"

(* from_str_radix(.., 16).unwrap_or(0) of both ends; the line is kept when
   start < end *)
RECURSIVE read_proc_maps(_)
read_proc_maps(lines) ==
    IF lines = <<>> THEN <<>>
    ELSE LET line == Head(lines)
             start == IF line.start = NotANumber THEN 0 ELSE line.start
             end == IF line.end = NotANumber THEN 0 ELSE line.end
         IN  (IF start >= end THEN <<>>
              ELSE <<[start |-> start, end |-> end, perms |-> line.perms,
                      pathname |-> line.pathname,
                      label |-> classify_region_label(line.perms, line.pathname)]>>)
                \o read_proc_maps(Tail(lines))

(* regions.iter().find(|r| r.contains(addr)) *)
RECURSIVE FindRegion(_, _)
FindRegion(regions, addr) ==
    IF regions = <<>> THEN None
    ELSE IF Head(regions).start <= addr /\ addr < Head(regions).end THEN Some(Head(regions))
    ELSE FindRegion(Tail(regions), addr)

classify_addr(regions, addr) ==
    IF FindRegion(regions, addr) = None THEN "[unknown]"
    ELSE CASE Unwrap(FindRegion(regions, addr)).label = "Text" -> "[text]"
           [] Unwrap(FindRegion(regions, addr)).label = "Data" -> "[data]"
           [] Unwrap(FindRegion(regions, addr)).label = "Heap" -> "[heap]"
           [] Unwrap(FindRegion(regions, addr)).label = "Stack" -> "[stack]"
           [] Unwrap(FindRegion(regions, addr)).label = "Lib" -> "[lib]"
           [] Unwrap(FindRegion(regions, addr)).label = "Anonymous" -> "[anon]"
           [] OTHER -> "[other]"

InitMaps ==
    /\ Quiet
    /\ \E lines \in SeqsUpTo(MapsLines, MaxRegions) : ctx = [lines |-> lines, regions |-> <<>>]

ReadProcMaps ==
    /\ pc = "idle"
    /\ pc' = "maps"
    /\ ctx' = [ctx EXCEPT !.regions = read_proc_maps(ctx.lines)]
    /\ UNCHANGED <<inbuf, stdinOpen, ncmd, session, xchg, last, proc, mpc>>

ClassifyAddr ==
    /\ pc = "maps"
    /\ pc' = "done"
    /\ \E addr \in 0..AddrMax :
          last' = [op |-> "classify_addr", addr |-> addr,
                   tag |-> classify_addr(ctx.regions, addr)]
    /\ UNCHANGED <<inbuf, stdinOpen, ncmd, session, ctx, xchg, proc, mpc>>

SpecMaps == InitMaps /\ [][ReadProcMaps \/ ClassifyAddr]_vars

(* C27: every region kept by read_proc_maps has start < end and a label
   chosen by the first matching rule in this order: pathname [heap] -> Heap;
   [stack] -> Stack; empty pathname -> Anonymous; pathname containing lib or
   .so -> Lib; perms beginning with r-x -> Text; perms beginning with rw- ->
   Data; otherwise Other.  The label depends only on perms and pathname, and
   classify_addr returns the tag of the first region with
   start <= a < end, else [unknown]. *)
C27_RegionsAndLabels ==
    pc # "idle" =>
        LET regions == ctx.regions
            rule(r) ==
                CASE r.pathname = "[heap]" -> "Heap"
                  [] r.pathname = "[stack]" -> "Stack"
                  [] r.pathname = "" -> "Anonymous"
                  [] r.pathname = "/usr/lib/libc.so.6" -> "Lib"
                  [] r.perms = "r-xp" -> "Text"
                  [] r.perms = "rw-p" -> "Data"
                  [] OTHER -> "Other"
            tag(l) ==
                CASE l = "Heap" -> "[heap]" [] l = "Stack" -> "[stack]"
                  [] l = "Anonymous" -> "[anon]" [] l = "Lib" -> "[lib]"
                  [] l = "Text" -> "[text]" [] l = "Data" -> "[data]"
                  [] OTHER -> "[other]"
        IN  /\ \A i \in DOMAIN regions :
                    regions[i].start < regions[i].end /\ regions[i].label = rule(regions[i])
            /\ \A i, j \in DOMAIN regions :
                    (regions[i].perms = regions[j].perms
                        /\ regions[i].pathname = regions[j].pathname)
                    => regions[i].label = regions[j].label
            /\ (pc = "done" /\ last.op = "classify_addr") =>
                    LET in == {i \in DOMAIN regions :
                                    regions[i].start <= last.addr /\ last.addr < regions[i].end}
                    IN  last.tag = IF in = {} THEN "[unknown]"
                                   ELSE tag(regions[CHOOSE i \in in : \A j \in in : i <= j].label)

(* an address in two overlapping regions, the first the text of a library,
   whose range started with a text that is no number *)
C27_Witness ==
    /\ pc = "done" /\ last.op = "classify_addr" /\ last.addr = 2 /\ last.tag = "[lib]"
    /\ Len(ctx.regions) = 2 /\ ctx.regions[1].start = 0 /\ ctx.regions[1].perms = "r-xp"
    /\ ctx.regions[2].label = "Heap" /\ ctx.regions[2].start = 2

-----------------------------------------------------------------------------
(* vm locate and vm vars over the regions read from a maps file of writable
   mappings.  What the debugger answers to an evaluation is an address of
   0..AddrMax or ReadError when the evaluation fails; a type name is a
   sequence of characters *)

InitVm ==
    /\ Quiet
    /\ \E lines \in SeqsUpTo({l \in MapsLines : l.perms = "rw-p" /\ l.pathname # ""
                                                /\ l.pathname # "/usr/lib/libc.so.6"},
                             MaxRegions) :
            ctx = [regions |-> read_proc_maps(lines)]

(* a locate that looks the pointer value up also when it is 0 *)
resolve_vm_locate_null_lookup(expr_type, address_of, value, regions) ==
    IF expr_type = None THEN Err("type")
    ELSE IF address_of = ReadError THEN Err("address")
    ELSE IF is_pointer_type(Unwrap(expr_type))
    THEN LET ptr_val == IF value = ReadError THEN 0 ELSE value IN
         Ok([storage_addr |-> Some(address_of),
             storage_region |-> FindRegion(regions, address_of),
             value_addr |-> Some(ptr_val),
             value_region |-> FindRegion(regions, ptr_val),
             is_pointer |-> TRUE, is_null |-> FALSE])
    ELSE Ok([storage_addr |-> None, storage_region |-> None,
             value_addr |-> Some(address_of),
             value_region |-> FindRegion(regions, address_of),
             is_pointer |-> FALSE, is_null |-> FALSE])

(* expr_type: the type eval_expr_type_and_value returns, none when it
   fails; address_of: the answer for &(expr); value: the answer for expr *)
resolve_vm_locate(expr_type, address_of, value, regions) ==
    IF expr_type = None THEN Err("type")
    ELSE IF address_of = ReadError THEN Err("address")
    ELSE IF is_pointer_type(Unwrap(expr_type))
    THEN LET ptr_val == IF value = ReadError THEN 0 ELSE value IN
         Ok([storage_addr |-> Some(address_of),
             storage_region |-> FindRegion(regions, address_of),
             value_addr |-> IF ptr_val = 0 THEN None ELSE Some(ptr_val),
             value_region |-> IF ptr_val = 0 THEN None ELSE FindRegion(regions, ptr_val),
             is_pointer |-> TRUE, is_null |-> ptr_val = 0])
    ELSE Ok([storage_addr |-> None, storage_region |-> None,
             value_addr |-> Some(address_of),
             value_region |-> FindRegion(regions, address_of),
             is_pointer |-> FALSE, is_null |-> FALSE])

(* what print_vm_locate writes: the parts of the report, each none or its
   address, its region (none when unknown) and its offset from the region's
   start; the value part of a null pointer is the NULL line alone *)
print_vm_locate(info) ==
    LET part(addr, region) ==
            Some([addr |-> addr, region |-> region,
                  offset |-> IF region = None THEN None
                             ELSE Some(IF addr > Unwrap(region).start
                                       THEN addr - Unwrap(region).start ELSE 0)])
    IN  IF info.is_pointer
        THEN [storage |-> IF info.storage_addr = None THEN None
                          ELSE part(Unwrap(info.storage_addr), info.storage_region),
              value |-> IF info.is_null THEN Some([null |-> TRUE])
                        ELSE IF info.value_addr = None THEN None
                        ELSE part(Unwrap(info.value_addr), info.value_region),
              object |-> None]
        ELSE [storage |-> None, value |-> None,
              object |-> IF info.value_addr = None THEN None
                         ELSE part(Unwrap(info.value_addr), info.value_region)]

VmLocate ==
    \E expr_type \in {None, Some(<<"T", " ", "*">>), Some(<<"T">>)} :
    \E address_of \in {ReadError, 1, 2} : \E value \in {ReadError, 0, 2} :
        LET info == resolve_vm_locate(expr_type, address_of, value, ctx.regions) IN
        Applied([op |-> "vm_locate", expr_type |-> expr_type, address_of |-> address_of,
                 value |-> value, ok |-> info.ok,
                 report |-> IF info.ok THEN Some(print_vm_locate(info.v)) ELSE None])

SpecLocate == InitVm /\ [][VmLocate]_vars

(* C28: vm locate: for an expression of pointer type the report holds the
   storage address (&expr) with the first region containing it and the
   value address (the pointer value) with the first region containing it, a
   pointer value of 0 being reported as NULL with no value region; for a
   non-pointer expression only the address of the object and its region are
   reported.  Reported offsets are address minus region start. *)
C28_VmLocate ==
    (pc = "done" /\ last.op = "vm_locate" /\ last.ok) =>
        LET report == Unwrap(last.report)
            in(a) == {i \in DOMAIN ctx.regions :
                        ctx.regions[i].start <= a /\ a < ctx.regions[i].end}
            first(a) == ctx.regions[CHOOSE i \in in(a) : \A j \in in(a) : i <= j]
            located(a) ==
                Some([addr |-> a,
                      region |-> IF in(a) = {} THEN None ELSE Some(first(a)),
                      offset |-> IF in(a) = {} THEN None ELSE Some(a - first(a).start)])
        IN  IF is_pointer_type(Unwrap(last.expr_type))
            THEN /\ report.storage = located(last.address_of)
                 /\ report.object = None
                 /\ last.value = 0 => report.value = Some([null |-> TRUE])
                 /\ last.value > 0 => report.value = located(last.value)
            ELSE /\ report.object = located(last.address_of)
                 /\ report.storage = None /\ report.value = None

(* a pointer stored in the first of two regions and pointing into the heap
   listed second *)
C28_Witness ==
    /\ pc = "done" /\ last.op = "vm_locate" /\ last.ok
    /\ last.expr_type = Some(<<"T", " ", "*">>) /\ last.address_of = 1 /\ last.value = 2
    /\ Len(ctx.regions) = 2 /\ ctx.regions[1].end = 2 /\ ctx.regions[1].label = "Stack"
    /\ ctx.regions[2].label = "Heap"
    /\ Unwrap(Unwrap(last.report).value).offset = Some(0)

(* vm vars: the locals list_locals returned, each with its type (none when
   no type was found) and the debugger's answers for &name and for name, and
   the globals list_globals returned *)
LocalNames == <<"p", "q", "r", "s">>
VmLabelOrder == <<"Data", "Stack", "Heap", "Text", "Lib", "Anonymous", "Other">>

InitVars ==
    /\ Quiet
    /\ \E lines \in SeqsUpTo({l \in MapsLines : l.perms = "rw-p" /\ l.pathname # ""
                                                /\ l.pathname # "/usr/lib/libc.so.6"},
                             MaxRegions) :
       \E answers \in SeqsUpTo([ty : {None, Some(<<"T", " ", "*">>), Some(<<"T">>)},
                                address_of : {ReadError, 2},
                                value : {ReadError, 0, 2}], MaxLocals) :
       \E globals \in {<<>>} \cup {<<[name |-> "g", address |-> a]>> : a \in {1, 2}} :
            ctx = [regions |-> read_proc_maps(lines),
                   locals |-> [i \in DOMAIN answers |->
                                  [name |-> LocalNames[i], ty |-> answers[i].ty,
                                   address_of |-> answers[i].address_of,
                                   value |-> answers[i].value]],
                   globals |-> globals]

(* the summaries handed to print_vm_vars: one per label that received a
   global, a local or a heap object, sorted by the key of the label *)
handle_vm_vars(regions, locals, globals) ==
    LET classify(addr) == IF FindRegion(regions, addr) = None THEN None
                          ELSE Some(Unwrap(FindRegion(regions, addr)).label)
        ty(l) == IF l.ty = None THEN <<"u", "n", "k", "n", "o", "w", "n">> ELSE Unwrap(l.ty)
        addr(l) == IF l.address_of = ReadError THEN 0 ELSE l.address_of
        ptr_val(l) == IF l.value = ReadError THEN 0 ELSE l.value
        target_label(l) == IF is_pointer_type(ty(l)) /\ ptr_val(l) # 0
                           THEN classify(ptr_val(l)) ELSE None
        summary(label) ==
            LET global_in(g) == classify(g.address) = Some(label)
                local_in(l) == classify(addr(l)) = Some(label)
                heap_via(l) == /\ classify(addr(l)) # None
                               /\ label = "Heap" /\ target_label(l) = Some("Heap")
                gs == SelectSeq(globals, global_in)
                ls == SelectSeq(locals, local_in)
                hs == SelectSeq(locals, heap_via)
            IN  [label |-> label,
                 globals |-> [i \in DOMAIN gs |-> [name |-> gs[i].name, addr |-> gs[i].address]],
                 locals |-> [i \in DOMAIN ls |->
                                [name |-> ls[i].name, type_name |-> ty(ls[i]),
                                 addr |-> addr(ls[i]), target_label |-> target_label(ls[i])]],
                 heap_objects |-> [i \in DOMAIN hs |->
                                      [via |-> hs[i].name,
                                       type_name |-> strip_pointer_suffix(ty(hs[i])),
                                       addr |-> ptr_val(hs[i])]]]
        inserted(label) == \/ summary(label).globals # <<>>
                           \/ summary(label).locals # <<>>
                           \/ summary(label).heap_objects # <<>>
        ordered == SelectSeq(VmLabelOrder, inserted)
    IN  [i \in DOMAIN ordered |-> summary(ordered[i])]

VmVars ==
    Applied([op |-> "vm_vars",
             summaries |-> handle_vm_vars(ctx.regions, ctx.locals, ctx.globals)])

SpecVars == InitVars /\ [][VmVars]_vars

(* C29: vm vars: every local of pointer type whose value lies in a Heap
   region contributes a heap-object entry with the local's name as via, the
   type with its pointer suffix stripped and the pointer value as address,
   and the summaries are emitted in the order Data, Stack, Heap, Text, Lib,
   Anonymous, Other. *)
C29_VmVars ==
    (pc = "done" /\ last.op = "vm_vars") =>
        /\ \A i \in DOMAIN ctx.locals :
              LET l == ctx.locals[i] IN
              ( /\ l.ty # None /\ is_pointer_type(Unwrap(l.ty))
                /\ l.value # ReadError
                /\ FindRegion(ctx.regions, l.value) # None
                /\ Unwrap(FindRegion(ctx.regions, l.value)).label = "Heap" ) =>
                 \E s \in DOMAIN last.summaries :
                 \E h \in DOMAIN last.summaries[s].heap_objects :
                    last.summaries[s].heap_objects[h] =
                        [via |-> l.name, type_name |-> strip_pointer_suffix(Unwrap(l.ty)),
                         addr |-> l.value]
        /\ \A s, t \in DOMAIN last.summaries :
              s < t => \E a, b \in DOMAIN VmLabelOrder :
                          /\ a < b
                          /\ VmLabelOrder[a] = last.summaries[s].label
                          /\ VmLabelOrder[b] = last.summaries[t].label

(* a pointer into the heap whose own address the debugger cannot give and
   address 0 is in no region: nothing is listed for it *)
C29_HeapPointerDropped ==
    /\ pc = "done" /\ last.op = "vm_vars"
    /\ Len(ctx.locals) = 1 /\ ctx.locals[1].ty = Some(<<"T", " ", "*">>)
    /\ ctx.locals[1].address_of = ReadError /\ ctx.locals[1].value = 2
    /\ Len(ctx.regions) = 1 /\ ctx.regions[1].label = "Heap" /\ ctx.regions[1].start = 2
    /\ last.summaries = <<>>

-----------------------------------------------------------------------------
(* The loop of handle_follow step by step.  ctx.log holds what the current
   iteration has done so far, ctx.reads the number of read_pointer_at calls,
   ctx.evals the number of display evaluations *)

InitWalk ==
    /\ Quiet
    /\ \E addr \in 0..AddrMax, offset \in {0, 1}, depth \in 1..MaxDepth,
          mem \in [1..AddrMax -> (0..AddrMax) \cup {ReadError}] :
          ctx = [addr |-> addr, offset |-> offset, mem |-> mem, depth |-> depth,
                 i |-> 0, reads |-> 0, evals |-> 0, field_addr |-> 0,
                 log |-> <<>>, stop |-> "none"]

WalkEnd(stop, log) ==
    /\ pc' = "done"
    /\ ctx' = [ctx EXCEPT !.stop = stop, !.log = log]

(* for i in 0..depth, then the line with the expression and the address *)
WalkPrint ==
    /\ mpc = "pure" /\ pc \in {"idle", "w_head"}
    /\ IF RangeDone(ctx.i, ctx.depth) THEN WalkEnd("limit", ctx.log)
       ELSE pc' = "w_null" /\ ctx' = [ctx EXCEPT !.log = <<"print">>]
    /\ UNCHANGED <<inbuf, stdinOpen, ncmd, session, xchg, last, proc, mpc>>

(* if addr == 0: the NULL line and break *)
WalkNull ==
    /\ mpc = "pure" /\ pc = "w_null"
    /\ IF ctx.addr = 0 THEN WalkEnd("null", Append(ctx.log, "null"))
       ELSE pc' = "w_eval" /\ UNCHANGED ctx
    /\ UNCHANGED <<inbuf, stdinOpen, ncmd, session, xchg, last, proc, mpc>>

(* a display evaluation whose failure ends the walk *)
WalkDisplayStops ==
    /\ mpc = "pure" /\ pc = "w_eval"
    /\ \E ok \in BOOLEAN :
          IF ok THEN /\ pc' = "w_add"
                     /\ ctx' = [ctx EXCEPT !.evals = @ + 1, !.log = Append(@, "value")]
          ELSE /\ pc' = "done"
               /\ ctx' = [ctx EXCEPT !.evals = @ + 1, !.log = Append(@, "eval error"),
                                     !.stop = "eval error"]
    /\ UNCHANGED <<inbuf, stdinOpen, ncmd, session, xchg, last, proc, mpc>>

(* evaluate_expression of the pointee: the value or the error is printed *)
WalkDisplay ==
    /\ mpc = "pure" /\ pc = "w_eval"
    /\ \E ok \in BOOLEAN :
          /\ pc' = "w_add"
          /\ ctx' = [ctx EXCEPT !.evals = @ + 1,
                                !.log = Append(@, IF ok THEN "value" ELSE "eval error")]
    /\ UNCHANGED <<inbuf, stdinOpen, ncmd, session, xchg, last, proc, mpc>>

(* addr.checked_add(link_field.offset) *)
WalkFieldAddr ==
    /\ mpc = "pure" /\ pc = "w_add"
    /\ IF ctx.addr + ctx.offset > AddrMax
       THEN WalkEnd("overflow", Append(ctx.log, "overflow"))
       ELSE /\ pc' = "w_read"
            /\ ctx' = [ctx EXCEPT !.field_addr = ctx.addr + ctx.offset,
                                  !.log = Append(@, "field_addr")]
    /\ UNCHANGED <<inbuf, stdinOpen, ncmd, session, xchg, last, proc, mpc>>

(* read_pointer_at(field_addr, ..): an error ends the walk, a value is the
   next address *)
WalkRead ==
    /\ mpc = "pure" /\ pc = "w_read"
    /\ IF ctx.mem[ctx.field_addr] = ReadError
       THEN /\ pc' = "done"
            /\ ctx' = [ctx EXCEPT !.stop = "read error", !.reads = @ + 1,
                                  !.log = Append(@, "read")]
       ELSE /\ pc' = "w_head"
            /\ ctx' = [ctx EXCEPT !.addr = ctx.mem[ctx.field_addr], !.reads = @ + 1,
                                  !.i = @ + 1, !.log = Append(@, "read")]
    /\ UNCHANGED <<inbuf, stdinOpen, ncmd, session, xchg, last, proc, mpc>>

NextWalk == WalkPrint \/ WalkNull \/ WalkDisplay \/ WalkFieldAddr \/ WalkRead

SpecWalk == InitWalk /\ [][NextWalk]_vars

(* C30: in each iteration of the follow walk the steps happen in the order:
   print the expression and address, stop if the address is zero, evaluate
   the pointee for display, compute address + link offset with overflow
   check, read the link field.  No memory read is issued for a zero
   address, and a failure of the display evaluation does not stop the walk:
   the link field is still read and the walk continues with the value
   read. *)
C30_WalkStepOrder ==
    /\ [](\/ ctx.log \in {<<>>, <<"print">>, <<"print", "null">>}
          \/ \E shown \in {"value", "eval error"} :
                ctx.log \in {<<"print", shown>>, <<"print", shown, "overflow">>,
                             <<"print", shown, "field_addr">>,
                             <<"print", shown, "field_addr", "read">>})
    /\ [][ /\ ctx'.evals # ctx.evals => (ctx.log = <<"print">> /\ ctx.addr # 0)
           /\ ctx'.reads # ctx.reads =>
                 /\ ctx.addr # 0 /\ ctx.evals = ctx.reads + 1
                 /\ ctx.field_addr = ctx.addr + ctx.offset /\ ctx.field_addr <= AddrMax
                 /\ ctx.mem[ctx.field_addr] # ReadError =>
                       /\ pc' = "w_head" /\ ctx'.addr = ctx.mem[ctx.field_addr]
                       /\ ctx'.i = ctx.i + 1
           /\ (ctx.addr = 0 /\ ctx.log = <<"print">>) =>
                 (pc' = "done" /\ ctx'.stop = "null" /\ ctx'.reads = ctx.reads)
           /\ (ctx'.evals # ctx.evals) => pc' = "w_add"
           /\ (pc = "w_add" /\ ctx.addr + ctx.offset <= AddrMax) => pc' = "w_read"
         ]_vars

(* the second iteration is reached after a failed display evaluation, with
   the address that was read *)
C30_Witness ==
    /\ pc = "w_head" /\ ctx.i = 1 /\ ctx.addr = 2
    /\ ctx.log = <<"print", "eval error", "field_addr", "read">>
    /\ ctx.reads = 1 /\ ctx.evals = 1

=============================================================================
